---- MODULE Spec2Model ----
(***************************************************************************)
(* Model of the WebRTC object-detection application:                       *)
(*   - the signaling coordinator (backend server: rooms map, join-room,    *)
(*     offer / answer / ice-candidate relay, disconnect, /rooms, /health); *)
(*   - the peer session clients (DesktopViewer = answerer, CameraCapture   *)
(*     = offerer) with their pending ICE candidate queues.                 *)
(***************************************************************************)
EXTENDS Integers, Sequences, FiniteSets, TLC

(***************************************************************************)
(* Bounds of the model                                                     *)
(***************************************************************************)
MaxSockets == 3

\* Desktop viewer: session descriptions (offers, answers) and candidates it
\* receives.
MaxOffers == 2
MaxCands == 3

\* Session: offers the mobile client starts (presses of Connect to Desktop).
MaxSessionOffers == 2

\* Candidate gathering: offers the mobile client starts, and the candidates
\* each peer connection side discovers.
MaxGatherOffers == 1
MaxLocalCands == 1

\* Detection: ticks of the frame-capture interval.
MaxTicks == 7

\* The most objects the inference finds in one frame.
MaxDetections == 1

\* Mobile camera client: answers and candidates it receives, and the events
\* of its environment while the camera runs (a press of Connect to Desktop
\* or Stop Camera, a drop of the signaling connection).
MaxAnswers == 1
MaxMobileCands == 2
MaxEnvEvents == 3

(***************************************************************************)
(* Signaling coordinator: domains                                          *)
(***************************************************************************)
\* Connection identities (socket.id): one per transport connection.
SocketIds == 1..MaxSockets

\* Room codes are arbitrary strings chosen by the clients (two of them differ
\* in letter case only).  They range over application room codes; socket.io's
\* private per-connection room (named by the socket id) is not a room code.
RoomIds == {"AB12CD", "ab12cd"}

\* Opaque payloads (session descriptions, candidates).
Payloads == {"O", "P"}

RelayKinds == {"offer", "answer", "ice-candidate"}

NoRoom == "-"
NoPayload == "-"

VARIABLES
    sockState,   \* [SocketIds -> {"new","open","closed"}]: transport connections
    rooms,       \* the coordinator's Map roomId -> Set of socket ids
    sioRooms,    \* socket.io's own room membership (socket.join / leave on close)
    lastEv,      \* the event the coordinator handled last
    lastEmit,    \* per connection: the events emitted to it by that handler
    live,        \* history: per room, ids that joined and have not disconnected
    lateJoin,    \* history: the join-room handled last came right after a message
                 \* was relayed to that room by a member while the joiner was outside
    reJoin,      \* history: the join-room handled last came from a participant
                 \* that was a member of that room already
    lastRes      \* the JSON body the handler that ran last responded with

coordVars == <<sockState, rooms, sioRooms, lastEv, lastEmit, live, lateJoin,
               reJoin, lastRes>>

VARIABLES
    role,        \* which client this behaviour is about: "desktop", "mobile" ("none": coordinator only)
    pcs,         \* the RTCPeerConnection objects the client created
    chain,       \* per peer connection: its operations chain (awaiting handlers, FIFO)
    hs,          \* the async handler invocations started so far
    pending,     \* pendingIceCandidatesRef.current
    pcRef,       \* peerConnectionRef.current (0: null)
    isJoining,   \* DesktopViewer state
    isConnected, \* DesktopViewer / CameraCapture state
    isStreaming, \* CameraCapture state
    localStream, \* CameraCapture state (TRUE: a live MediaStream)
    sockUp,      \* the client's signaling socket is connected
    joinedSock,  \* join-room was emitted on the current signaling connection, or
                 \* is buffered by socket.io for the connection that comes next
    ncand,       \* candidates received so far (a candidate is named by its arrival number)
    ndesc,       \* offers / answers received so far
    nenv,        \* Connect / Stop presses and signaling drops so far (mobile)
    applied,     \* history: the addIceCandidate invocations, in order
    queued,      \* history: the candidates that were pushed on the pending array
    sent,        \* history: the events the client emitted to the coordinator
    startFailed  \* the last startVideoSharing ended in its catch block (the
                 \* 'Failed to access camera' alert)

clientVars == <<role, pcs, chain, hs, pending, pcRef, isJoining, isConnected,
                isStreaming, localStream, sockUp, joinedSock, ncand, ndesc,
                nenv, applied, queued, sent, startFailed>>

\* The desktop viewer of a session in which the client above is the mobile
\* camera client, and the signaling traffic between the two.
VARIABLES
    dPc,          \* the desktop's RTCPeerConnection (peerConnectionRef.current)
    dChain,       \* its operations chain (awaiting offer handlers, FIFO)
    dHs,          \* the desktop's offer handler invocations: the await each is at
    dIsJoining,   \* DesktopViewer state
    dIsConnected, \* DesktopViewer state
    dSent,        \* the events the desktop emitted to the coordinator, in order
    dRead,        \* how many of dSent the coordinator has handled
    mRead,        \* how many of sent (the mobile's events) the coordinator has handled
    offersOut,    \* offers the coordinator emitted to the desktop
    offersIn,     \* offers the desktop received
    answersOut,   \* answers the coordinator emitted to the mobile
    nlocal,       \* history: per participant, the candidates its peer
                  \* connections discovered (onicecandidate events)
    candsOut      \* per participant: ice-candidate events the coordinator
                  \* emitted to it

iceVars == <<nlocal, candsOut>>

\* The desktop viewer's frame processing: the capture interval and the
\* detection worker.
VARIABLES
    isProcessing,        \* DesktopViewer state
    processIntervalRef,  \* processIntervalRef.current is an interval (TRUE) or null
    processingRef,       \* processingRef.current
    outstanding,         \* process-frame messages posted to the worker and not
                         \* answered yet
    droppedFrames,       \* the dropped-frames counter of the metrics exporter
    nticks               \* ticks of the interval so far

\* The detection worker, the viewer's detection list and the two metrics
\* collectors (globalMetrics, globalMetricsExporter).
VARIABLES
    wState,              \* the worker's model: "loading", "ready" (isInitialized)
                         \* or "failed"
    atWorker,            \* process-frame messages the worker has not handled yet
    replies,             \* messages the worker posted that the viewer has not
                         \* handled yet, in order
    detections,          \* DesktopViewer state: the detection list is not empty
    frameCount,          \* globalMetrics.frameCount (the length of its timings)
    totalFrames,         \* globalMetricsExporter.totalFrames (the length of its
                         \* timingRecords)
    metricsDropped,      \* DesktopViewer state: metrics.droppedFrames
    sessionFrames,       \* history: detection results handled since the latest
                         \* startProcessing
    sessionSkipped       \* history: interval ticks skipped for an outstanding
                         \* frame since the latest startProcessing

metVars == <<wState, atWorker, replies, detections, frameCount, totalFrames,
             metricsDropped, sessionFrames, sessionSkipped>>

\* The desktop viewer's room code and signaling connection, where the
\* viewer's room code is edited (elsewhere the room code is ClientRoom and
\* the connection is not replaced).
VARIABLES
    vRoomId,             \* the roomId prop of DesktopViewer
    vSock                \* the identity (socket.id) of socketRef.current at the
                         \* coordinator (0: the socket has not connected yet)

viewVars == <<vRoomId, vSock>>

detVars == <<isProcessing, processIntervalRef, processingRef, outstanding,
             droppedFrames, nticks, metVars, viewVars>>

sessVars == <<dPc, dChain, dHs, dIsJoining, dIsConnected, dSent, dRead, mRead,
              offersOut, offersIn, answersOut, iceVars, detVars>>

vars == <<coordVars, clientVars, sessVars>>

(***************************************************************************)
(* Helpers                                                                 *)
(***************************************************************************)
Event(ev, arg) == [ev |-> ev, arg |-> arg]

Repeat(e, n) == [i \in 1..n |-> e]

NoEmit == [q \in SocketIds |-> <<>>]

\* socket.to(roomId).emit(ev, arg): one event to every socket that is in the
\* socket.io room roomId, except the emitting socket itself.
BrokenToEmitSelf(sio, s, roomId, ev, arg) ==
    [q \in SocketIds |-> IF q \in sio[roomId] THEN <<Event(ev, arg)>> ELSE <<>>]

\* An emit that reaches nobody.
BrokenToEmitNobody(sio, s, roomId, ev, arg) ==
    [q \in SocketIds |-> <<>>]

\* An emit that reaches every connection (io.emit).
BrokenToEmitAll(sio, s, roomId, ev, arg) ==
    [q \in SocketIds |-> <<Event(ev, arg)>>]

ToEmit(sio, s, roomId, ev, arg) ==
    [q \in SocketIds |->
        IF q \in sio[roomId] /\ q # s THEN <<Event(ev, arg)>> ELSE <<>>]

\* rooms.has(roomId) ? rooms.get(roomId) : (no entry)
Members(rms, roomId) == IF roomId \in DOMAIN rms THEN rms[roomId] ELSE {}

(***************************************************************************)
(* join-room handler: the new rooms map                                    *)
(***************************************************************************)
BrokenJoinReplace(rms, s, roomId) ==
    [r \in DOMAIN rms \cup {roomId} |-> IF r = roomId THEN {s} ELSE rms[r]]

\* A join-room handler that starts the room afresh when a member joins again.
BrokenJoinRejoinResets(rms, s, roomId) ==
    [r \in DOMAIN rms \cup {roomId} |->
        IF r # roomId THEN rms[r]
        ELSE IF s \in Members(rms, roomId) THEN {s}
        ELSE Members(rms, roomId) \cup {s}]

\* A join-room handler that admits at most two members per room.
BrokenJoinCapacity(rms, s, roomId) ==
    IF Cardinality(Members(rms, roomId) \ {s}) >= 2
    THEN rms
    ELSE [r \in DOMAIN rms \cup {roomId} |->
             IF r = roomId THEN Members(rms, roomId) \cup {s} ELSE rms[r]]

joinRoomHandler(rms, s, roomId) ==
    [r \in DOMAIN rms \cup {roomId} |->
        IF r = roomId THEN Members(rms, roomId) \cup {s} ELSE rms[r]]

(***************************************************************************)
(* disconnect handler: the new rooms map                                   *)
(***************************************************************************)
BrokenDisconnectKeepEmpty(rms, s) ==
    [r \in DOMAIN rms |-> rms[r] \ {s}]

disconnectHandler(rms, s) ==
    [r \in {x \in DOMAIN rms : rms[x] \ {s} # {}} |-> rms[r] \ {s}]

\* The user-left events of the disconnect loop: one per room that held s,
\* emitted with socket.to(roomId) to the sockets socket.io has in that room.
BrokenDisconnectEmitOnce(rms, sio, s) ==
    [q \in SocketIds |->
        IF \E r \in DOMAIN rms : s \in rms[r] /\ q \in sio[r] /\ q # s
        THEN <<Event("user-left", s)>> ELSE <<>>]

disconnectEmits(rms, sio, s) ==
    [q \in SocketIds |->
        Repeat(Event("user-left", s),
               Cardinality({r \in DOMAIN rms :
                               s \in rms[r] /\ q \in sio[r] /\ q # s}))]

(***************************************************************************)
(* Diagnostic endpoints                                                    *)
(***************************************************************************)
\* A /rooms body that lists the rooms without counting their members.
BrokenRoomInfoFlat == [r \in DOMAIN rooms |-> 1]

\* GET /rooms: roomInfo[roomId] = clients.size for each entry of rooms
roomInfo == [r \in DOMAIN rooms |-> Cardinality(rooms[r])]

\* GET /health: rooms.size and io.engine.clientsCount
healthInfo ==
    [status |-> "healthy",
     rooms |-> Cardinality(DOMAIN rooms),
     connections |-> Cardinality({s \in SocketIds : sockState[s] = "open"})]

\* No HTTP response (the handler that ran last was a socket event handler).
NoResponse == [status |-> "none"]

(***************************************************************************)
(* Coordinator: initial state and events                                   *)
(***************************************************************************)
CoordInit ==
    /\ sockState = [s \in SocketIds |-> "new"]
    /\ rooms = << >>
    /\ sioRooms = [r \in RoomIds |-> {}]
    /\ lastEv = [type |-> "none", sock |-> 0, room |-> NoRoom, payload |-> NoPayload]
    /\ lastEmit = NoEmit
    /\ live = [r \in RoomIds |-> {}]
    /\ lateJoin = FALSE
    /\ reJoin = FALSE
    /\ lastRes = NoResponse

\* io.on('connection')
Connection(s) ==
    /\ sockState[s] = "new"
    /\ sockState' = [sockState EXCEPT ![s] = "open"]
    /\ lastEv' = [type |-> "connection", sock |-> s, room |-> NoRoom, payload |-> NoPayload]
    /\ lastEmit' = NoEmit
    /\ lateJoin' = FALSE
    /\ reJoin' = FALSE
    /\ lastRes' = NoResponse
    /\ UNCHANGED <<rooms, sioRooms, live>>
    /\ UNCHANGED clientVars
    /\ UNCHANGED sessVars

\* A join-room handler that replays the message relayed last to the joiner.
BrokenJoinRoomReplay(s, roomId) ==
    /\ sockState[s] = "open"
    /\ sioRooms' = [sioRooms EXCEPT ![roomId] = @ \cup {s}]
    /\ rooms' = joinRoomHandler(rooms, s, roomId)
    /\ lastEmit' = [ToEmit(sioRooms', s, roomId, "user-joined", s) EXCEPT
                       ![s] = IF lastEv.type \in RelayKinds /\ lastEv.room = roomId
                              THEN <<Event(lastEv.type, lastEv.payload)>>
                              ELSE <<>>]
    /\ lastEv' = [type |-> "join-room", sock |-> s, room |-> roomId, payload |-> NoPayload]
    /\ live' = [live EXCEPT ![roomId] = @ \cup {s}]
    /\ lateJoin' = (/\ lastEv.type \in RelayKinds
                    /\ lastEv.room = roomId
                    /\ lastEv.sock \in Members(rooms, roomId)
                    /\ s \notin Members(rooms, roomId))
    /\ reJoin' = (s \in Members(rooms, roomId))
    /\ lastRes' = NoResponse
    /\ UNCHANGED sockState
    /\ UNCHANGED clientVars
    /\ UNCHANGED sessVars

\* socket.on('join-room')
JoinRoom(s, roomId) ==
    /\ sockState[s] = "open"
    /\ sioRooms' = [sioRooms EXCEPT ![roomId] = @ \cup {s}]
    /\ rooms' = joinRoomHandler(rooms, s, roomId)
    /\ lastEmit' = ToEmit(sioRooms', s, roomId, "user-joined", s)
    /\ lastEv' = [type |-> "join-room", sock |-> s, room |-> roomId, payload |-> NoPayload]
    /\ live' = [live EXCEPT ![roomId] = @ \cup {s}]
    /\ lateJoin' = (/\ lastEv.type \in RelayKinds
                    /\ lastEv.room = roomId
                    /\ lastEv.sock \in Members(rooms, roomId)
                    /\ s \notin Members(rooms, roomId))
    /\ reJoin' = (s \in Members(rooms, roomId))
    /\ lastRes' = NoResponse
    /\ UNCHANGED sockState
    /\ UNCHANGED clientVars
    /\ UNCHANGED sessVars

\* A relay handler that makes the sender a member of the room it names.
BrokenRelayJoins(s, kind, roomId, payload) ==
    /\ sockState[s] = "open"
    /\ lastEmit' = ToEmit(sioRooms, s, roomId, kind, payload)
    /\ lastEv' = [type |-> kind, sock |-> s, room |-> roomId, payload |-> payload]
    /\ rooms' = joinRoomHandler(rooms, s, roomId)
    /\ lateJoin' = FALSE
    /\ reJoin' = FALSE
    /\ lastRes' = NoResponse
    /\ UNCHANGED <<sockState, sioRooms, live>>
    /\ UNCHANGED clientVars
    /\ UNCHANGED sessVars

\* socket.on('offer' | 'answer' | 'ice-candidate')
Relay(s, kind, roomId, payload) ==
    /\ sockState[s] = "open"
    /\ lastEmit' = ToEmit(sioRooms, s, roomId, kind, payload)
    /\ lastEv' = [type |-> kind, sock |-> s, room |-> roomId, payload |-> payload]
    /\ lateJoin' = FALSE
    /\ reJoin' = FALSE
    /\ lastRes' = NoResponse
    /\ UNCHANGED <<sockState, rooms, sioRooms, live>>
    /\ UNCHANGED clientVars
    /\ UNCHANGED sessVars

\* socket.on('offer' | 'answer' | 'ice-candidate') for a message without a
\* body (undefined or null): destructuring ({ roomId, offer }) throws a
\* TypeError before the handler's first statement.  Nothing catches it, so
\* the server process ends: every connection closes without its disconnect
\* handler having run, no further connection is accepted, and the rooms map
\* is gone with the process.
RelayNoBody(s, kind) ==
    /\ sockState[s] = "open"
    /\ sockState' = [q \in SocketIds |-> "closed"]
    /\ rooms' = << >>
    /\ sioRooms' = [r \in RoomIds |-> {}]
    /\ lastEmit' = NoEmit
    /\ lastEv' = [type |-> "TypeError", sock |-> s, room |-> NoRoom,
                  payload |-> NoPayload]
    /\ live' = [r \in RoomIds |-> {}]
    /\ lateJoin' = FALSE
    /\ reJoin' = FALSE
    /\ lastRes' = NoResponse
    /\ UNCHANGED clientVars
    /\ UNCHANGED sessVars

\* socket.on('disconnect'): socket.io has already removed the socket from its
\* rooms when the handler runs.
Disconnect(s) ==
    /\ sockState[s] = "open"
    /\ sockState' = [sockState EXCEPT ![s] = "closed"]
    /\ sioRooms' = [r \in RoomIds |-> sioRooms[r] \ {s}]
    /\ rooms' = disconnectHandler(rooms, s)
    /\ lastEmit' = disconnectEmits(rooms, sioRooms', s)
    /\ lastEv' = [type |-> "disconnect", sock |-> s, room |-> NoRoom, payload |-> NoPayload]
    /\ live' = [r \in RoomIds |-> live[r] \ {s}]
    /\ lateJoin' = FALSE
    /\ reJoin' = FALSE
    /\ lastRes' = NoResponse
    /\ UNCHANGED clientVars
    /\ UNCHANGED sessVars

\* app.get('/health'): answered while the server process runs
GetHealth ==
    /\ lastEv.type # "TypeError"
    /\ lastRes' = healthInfo
    /\ lastEv' = [type |-> "GET /health", sock |-> 0, room |-> NoRoom,
                  payload |-> NoPayload]
    /\ lastEmit' = NoEmit
    /\ lateJoin' = FALSE
    /\ reJoin' = FALSE
    /\ UNCHANGED <<sockState, rooms, sioRooms, live>>
    /\ UNCHANGED clientVars
    /\ UNCHANGED sessVars

\* app.get('/rooms')
GetRooms ==
    /\ lastEv.type # "TypeError"
    /\ lastRes' = roomInfo
    /\ lastEv' = [type |-> "GET /rooms", sock |-> 0, room |-> NoRoom,
                  payload |-> NoPayload]
    /\ lastEmit' = NoEmit
    /\ lateJoin' = FALSE
    /\ reJoin' = FALSE
    /\ UNCHANGED <<sockState, rooms, sioRooms, live>>
    /\ UNCHANGED clientVars
    /\ UNCHANGED sessVars

CoordNext ==
    \/ GetHealth
    \/ GetRooms
    \/ \E s \in SocketIds : Connection(s)
    \/ \E s \in SocketIds, r \in RoomIds : JoinRoom(s, r)
    \/ \E s \in SocketIds, k \in RelayKinds, r \in RoomIds, p \in Payloads :
          Relay(s, k, r, p)
    \/ \E s \in SocketIds, k \in RelayKinds : RelayNoBody(s, k)
    \/ \E s \in SocketIds : Disconnect(s)

(***************************************************************************)
(* Peer session clients: RTCPeerConnection                                 *)
(*                                                                         *)
(* A peer connection is modelled by its closed flag, its signaling state,  *)
(* whether its local / remote description is set, and whether its          *)
(* connectionState is 'connected' (conn).  createOffer, createAnswer,      *)
(* setLocalDescription, setRemoteDescription and addIceCandidate are       *)
(* chained operations: the promises of one connection settle in the order  *)
(* of the calls, and the awaiting handler continues in the task that       *)
(* settles its promise.                                                    *)
(***************************************************************************)
PcIds == 1..MaxEnvEvents

\* The room code of the client (the roomId prop).
ClientRoom == "AB12CD"

PcNone == [st |-> "none", sig |-> "stable", rd |-> FALSE, ld |-> FALSE,
           conn |-> FALSE]

\* new RTCPeerConnection(...)
PcNew == [st |-> "open", sig |-> "stable", rd |-> FALSE, ld |-> FALSE,
          conn |-> FALSE]

\* Does the operation `op` of handler record h succeed on connection pc?
OpOk(pc, op, valid) ==
    /\ pc.st = "open"
    /\ CASE op = "srdOffer"     -> valid /\ pc.sig \in {"stable", "have-remote-offer"}
         [] op = "srdAnswer"    -> valid /\ pc.sig = "have-local-offer"
         [] op = "createAnswer" -> pc.sig = "have-remote-offer"
         [] op = "sldAnswer"    -> pc.sig = "have-remote-offer"
         [] op = "createOffer"  -> TRUE
         [] op = "sldOffer"     -> pc.sig \in {"stable", "have-local-offer"}

\* The connection after the successful operation.
OpDone(pc, op) ==
    CASE op = "srdOffer"   -> [pc EXCEPT !.sig = "have-remote-offer", !.rd = TRUE]
      [] op = "srdAnswer"  -> [pc EXCEPT !.sig = "stable", !.rd = TRUE]
      [] op = "sldAnswer"  -> [pc EXCEPT !.sig = "stable", !.ld = TRUE]
      [] op = "sldOffer"   -> [pc EXCEPT !.sig = "have-local-offer", !.ld = TRUE]
      [] OTHER             -> pc

(***************************************************************************)
(* Async handler invocations                                               *)
(***************************************************************************)
\* kind: which async function; pc: the connection whose promise it awaits;
\* at: the await it is suspended at; i: index of the for-of loop over the
\* pending array; det/arr: the loop's array once pendingIceCandidatesRef was
\* re-assigned by another invocation (the loop keeps iterating the old array).
HNew(kind, p, at, valid) ==
    [kind |-> kind, pc |-> p, at |-> at, i |-> 0, det |-> FALSE, arr |-> <<>>,
     valid |-> valid]

HDone == [kind |-> "done", pc |-> 0, at |-> "done", i |-> 0, det |-> FALSE,
          arr |-> <<>>, valid |-> TRUE]

\* A handler that returned after its setRemoteDescription was rejected.
HRejected == [kind |-> "rejected", pc |-> 0, at |-> "done", i |-> 0,
              det |-> FALSE, arr |-> <<>>, valid |-> TRUE]

\* The array a suspended for-of loop iterates.
LoopArr(h) == IF h.det THEN h.arr ELSE pending

\* pendingIceCandidatesRef.current = []: loops of other invocations keep the
\* old array object.
Detach(hsx, self, old) ==
    [k \in DOMAIN hsx |->
        IF k # self /\ hsx[k].at = "flush" /\ ~hsx[k].det
        THEN [hsx[k] EXCEPT !.det = TRUE, !.arr = old]
        ELSE hsx[k]]

Enq(ch, p, k) == [ch EXCEPT ![p] = Append(@, k)]

Deq(ch, p) == [ch EXCEPT ![p] = Tail(@)]

\* The handler whose promise settles next on connection p.
IsHead(k, p) == chain[p] # <<>> /\ Head(chain[p]) = k

\* One addIceCandidate invocation: candidate c on connection p.
Applied(c, p, pcsx) == [c |-> c, pc |-> p, rd |-> pcsx[p].rd]

ClientIdle ==
    /\ pcs = [p \in PcIds |-> PcNone]
    /\ chain = [p \in PcIds |-> <<>>]
    /\ hs = <<>>
    /\ pending = <<>>
    /\ pcRef = 0
    /\ isJoining = FALSE
    /\ isConnected = FALSE
    /\ isStreaming = FALSE
    /\ localStream = FALSE
    /\ sockUp = TRUE
    /\ joinedSock = FALSE
    /\ ncand = 0
    /\ ndesc = 0
    /\ nenv = 0
    /\ applied = <<>>
    /\ queued = {}
    /\ sent = <<>>
    /\ startFailed = FALSE

(***************************************************************************)
(* DesktopViewer (answerer)                                                *)
(***************************************************************************)
\* socket.on('ice-candidate') without the remoteDescription test
BrokenIceCandidateNoCheck(c) ==
    IF pcRef # 0
    THEN /\ applied' = Append(applied, Applied(c, pcRef, pcs))
         /\ UNCHANGED <<pending, queued>>
    ELSE /\ pending' = Append(pending, c)
         /\ queued' = queued \cup {c}
         /\ UNCHANGED applied

\* socket.on('ice-candidate'): apply the candidate when the connection exists
\* and has a remote description, queue it otherwise
DIceCandidateHandler(c) ==
    IF pcRef # 0 /\ pcs[pcRef].rd
    THEN /\ applied' = Append(applied, Applied(c, pcRef, pcs))
         /\ UNCHANGED <<pending, queued>>
    ELSE /\ pending' = Append(pending, c)
         /\ queued' = queued \cup {c}
         /\ UNCHANGED applied

\* joinRoom (the Join Room button)
DJoinRoom ==
    /\ role = "desktop"
    /\ UNCHANGED coordVars
    /\ UNCHANGED startFailed
    /\ UNCHANGED sessVars
    /\ UNCHANGED queued
    /\ ~isJoining /\ ~isConnected
    /\ isJoining' = TRUE
    /\ IF pcRef = 0
       THEN pcs' = [pcs EXCEPT ![1] = PcNew] /\ pcRef' = 1
       ELSE UNCHANGED <<pcs, pcRef>>
    /\ sent' = Append(sent, <<"join-room", ClientRoom>>)
    /\ joinedSock' = TRUE
    /\ UNCHANGED <<role, chain, hs, pending, isConnected, isStreaming,
                   localStream, sockUp, ncand, ndesc, nenv, applied>>

\* socket.on('offer'), up to the first await
DOffer(valid) ==
    /\ role = "desktop"
    /\ UNCHANGED coordVars
    /\ UNCHANGED startFailed
    /\ UNCHANGED sessVars
    /\ UNCHANGED queued
    /\ sockUp /\ joinedSock
    /\ ndesc < MaxOffers
    /\ ndesc' = ndesc + 1
    /\ isJoining' = FALSE
    /\ LET p == IF pcRef = 0 THEN 1 ELSE pcRef
       IN /\ pcs' = IF pcRef = 0 THEN [pcs EXCEPT ![1] = PcNew] ELSE pcs
          /\ pcRef' = p
          /\ hs' = Append(hs, HNew("offer", p, "srd", valid))
          /\ chain' = Enq(chain, p, Len(hs) + 1)
    /\ UNCHANGED <<role, pending, isConnected, isStreaming, localStream,
                   sockUp, joinedSock, ncand, nenv, applied, sent>>

\* socket.on('offer'): await setRemoteDescription(offer) settles
DSrdDone(k) ==
    /\ role = "desktop"
    /\ UNCHANGED coordVars
    /\ UNCHANGED startFailed
    /\ UNCHANGED sessVars
    /\ UNCHANGED queued
    /\ k \in DOMAIN hs /\ hs[k].kind = "offer" /\ hs[k].at = "srd"
    /\ IsHead(k, hs[k].pc)
    /\ LET p == hs[k].pc
       IN IF OpOk(pcs[p], "srdOffer", hs[k].valid)
          THEN /\ pcs' = [pcs EXCEPT ![p] = OpDone(@, "srdOffer")]
               /\ hs' = [hs EXCEPT ![k].at = "createAnswer"]
               /\ chain' = Enq(Deq(chain, p), p, k)
               /\ UNCHANGED isJoining
          ELSE /\ hs' = [hs EXCEPT ![k] = HRejected]
               /\ chain' = Deq(chain, p)
               /\ isJoining' = FALSE
               /\ UNCHANGED pcs
    /\ UNCHANGED <<role, pending, pcRef, isConnected, isStreaming, localStream,
                   sockUp, joinedSock, ncand, ndesc, nenv, applied, sent>>

\* socket.on('offer'): await createAnswer() settles
DCreateAnswerDone(k) ==
    /\ role = "desktop"
    /\ UNCHANGED coordVars
    /\ UNCHANGED startFailed
    /\ UNCHANGED sessVars
    /\ UNCHANGED queued
    /\ k \in DOMAIN hs /\ hs[k].kind = "offer" /\ hs[k].at = "createAnswer"
    /\ IsHead(k, hs[k].pc)
    /\ LET p == hs[k].pc
       IN IF OpOk(pcs[p], "createAnswer", TRUE)
          THEN /\ hs' = [hs EXCEPT ![k].at = "sld"]
               /\ chain' = Enq(Deq(chain, p), p, k)
               /\ UNCHANGED isJoining
          ELSE /\ hs' = [hs EXCEPT ![k] = HDone]
               /\ chain' = Deq(chain, p)
               /\ isJoining' = FALSE
    /\ UNCHANGED <<role, pcs, pending, pcRef, isConnected, isStreaming,
                   localStream, sockUp, joinedSock, ncand, ndesc, nenv,
                   applied, sent>>

\* socket.on('offer'): await setLocalDescription(answer) settles; the answer
\* is emitted and the flush of the pending candidates starts
DSldDone(k) ==
    /\ role = "desktop"
    /\ UNCHANGED coordVars
    /\ UNCHANGED startFailed
    /\ UNCHANGED sessVars
    /\ UNCHANGED queued
    /\ k \in DOMAIN hs /\ hs[k].kind = "offer" /\ hs[k].at = "sld"
    /\ IsHead(k, hs[k].pc)
    /\ LET p == hs[k].pc
       IN IF OpOk(pcs[p], "sldAnswer", TRUE)
          THEN /\ pcs' = [pcs EXCEPT ![p] = OpDone(@, "sldAnswer")]
               /\ sent' = Append(sent, <<"answer", ClientRoom>>)
               /\ IF Len(pending) > 0
                  THEN /\ applied' = Append(applied, Applied(pending[1], p, pcs'))
                       /\ hs' = [hs EXCEPT ![k].at = "flush", ![k].i = 1]
                       /\ chain' = Enq(Deq(chain, p), p, k)
                  ELSE /\ hs' = [hs EXCEPT ![k] = HDone]
                       /\ chain' = Deq(chain, p)
                       /\ UNCHANGED applied
               /\ UNCHANGED isJoining
          ELSE /\ hs' = [hs EXCEPT ![k] = HDone]
               /\ chain' = Deq(chain, p)
               /\ isJoining' = FALSE
               /\ UNCHANGED <<pcs, sent, applied>>
    /\ UNCHANGED <<role, pending, pcRef, isConnected, isStreaming, localStream,
                   sockUp, joinedSock, ncand, ndesc, nenv>>

\* socket.on('offer'): await addIceCandidate(c) of the flush loop settles
\* (resolved or rejected: the rejection is caught inside the loop)
DFlushNext(k) ==
    /\ role = "desktop"
    /\ UNCHANGED coordVars
    /\ UNCHANGED startFailed
    /\ UNCHANGED sessVars
    /\ UNCHANGED queued
    /\ k \in DOMAIN hs /\ hs[k].kind = "offer" /\ hs[k].at = "flush"
    /\ IsHead(k, hs[k].pc)
    /\ LET p == hs[k].pc
           arr == LoopArr(hs[k])
       IN IF hs[k].i < Len(arr)
          THEN /\ applied' = Append(applied, Applied(arr[hs[k].i + 1], p, pcs))
               /\ hs' = [hs EXCEPT ![k].i = @ + 1]
               /\ chain' = Enq(Deq(chain, p), p, k)
               /\ UNCHANGED pending
          ELSE /\ pending' = <<>>
               /\ hs' = [Detach(hs, k, pending) EXCEPT ![k] = HDone]
               /\ chain' = Deq(chain, p)
               /\ UNCHANGED applied
    /\ UNCHANGED <<role, pcs, pcRef, isJoining, isConnected, isStreaming,
                   localStream, sockUp, joinedSock, ncand, ndesc, nenv, sent>>

\* socket.on('answer'), up to its await
DAnswer(valid) ==
    /\ role = "desktop"
    /\ UNCHANGED coordVars
    /\ UNCHANGED startFailed
    /\ UNCHANGED sessVars
    /\ UNCHANGED queued
    /\ sockUp /\ joinedSock
    /\ ndesc < MaxOffers
    /\ ndesc' = ndesc + 1
    /\ IF pcRef # 0
       THEN /\ hs' = Append(hs, HNew("answer", pcRef, "srd", valid))
            /\ chain' = Enq(chain, pcRef, Len(hs) + 1)
       ELSE UNCHANGED <<hs, chain>>
    /\ UNCHANGED <<role, pcs, pending, pcRef, isJoining, isConnected,
                   isStreaming, localStream, sockUp, joinedSock, ncand, nenv,
                   applied, sent>>

\* socket.on('answer') in which a rejected answer marks the viewer connected
BrokenDAnswerConnects(k) ==
    /\ role = "desktop"
    /\ UNCHANGED coordVars
    /\ UNCHANGED startFailed
    /\ UNCHANGED sessVars
    /\ UNCHANGED queued
    /\ k \in DOMAIN hs /\ hs[k].kind = "answer" /\ hs[k].at = "srd"
    /\ IsHead(k, hs[k].pc)
    /\ LET p == hs[k].pc
       IN /\ chain' = Deq(chain, p)
          /\ IF OpOk(pcs[p], "srdAnswer", hs[k].valid)
             THEN /\ pcs' = [pcs EXCEPT ![p] = OpDone(@, "srdAnswer")]
                  /\ hs' = [hs EXCEPT ![k] = HDone]
                  /\ UNCHANGED isConnected
             ELSE /\ hs' = [hs EXCEPT ![k] = HRejected]
                  /\ isConnected' = TRUE
                  /\ UNCHANGED pcs
    /\ UNCHANGED <<role, pending, pcRef, isJoining, isStreaming,
                   localStream, sockUp, joinedSock, ncand, ndesc, nenv,
                   applied, sent>>

\* socket.on('answer'): await setRemoteDescription(answer) settles; a
\* rejection is caught and logged
DAnswerSrdDone(k) ==
    /\ role = "desktop"
    /\ UNCHANGED coordVars
    /\ UNCHANGED startFailed
    /\ UNCHANGED sessVars
    /\ UNCHANGED queued
    /\ k \in DOMAIN hs /\ hs[k].kind = "answer" /\ hs[k].at = "srd"
    /\ IsHead(k, hs[k].pc)
    /\ LET p == hs[k].pc
       IN /\ chain' = Deq(chain, p)
          /\ IF OpOk(pcs[p], "srdAnswer", hs[k].valid)
             THEN /\ pcs' = [pcs EXCEPT ![p] = OpDone(@, "srdAnswer")]
                  /\ hs' = [hs EXCEPT ![k] = HDone]
                  /\ UNCHANGED isConnected
             ELSE /\ hs' = [hs EXCEPT ![k] = HRejected]
                  /\ UNCHANGED <<pcs, isConnected>>
    /\ UNCHANGED <<role, pending, pcRef, isJoining, isStreaming,
                   localStream, sockUp, joinedSock, ncand, ndesc, nenv,
                   applied, sent>>

\* socket.on('ice-candidate')
DIceCandidate ==
    /\ role = "desktop"
    /\ UNCHANGED coordVars
    /\ UNCHANGED startFailed
    /\ UNCHANGED sessVars
    /\ sockUp /\ joinedSock
    /\ ncand < MaxCands
    /\ ncand' = ncand + 1
    /\ DIceCandidateHandler(ncand + 1)
    /\ UNCHANGED <<role, pcs, chain, hs, pcRef, isJoining, isConnected,
                   isStreaming, localStream, sockUp, joinedSock, ndesc, nenv,
                   sent>>

\* peerConnection.onconnectionstatechange
DConnectionStateChange(connected) ==
    /\ role = "desktop"
    /\ UNCHANGED coordVars
    /\ UNCHANGED startFailed
    /\ UNCHANGED sessVars
    /\ UNCHANGED queued
    /\ pcRef # 0
    /\ connected => (pcs[pcRef].rd /\ pcs[pcRef].ld)
    /\ pcs[pcRef].conn # connected
    /\ pcs' = [pcs EXCEPT ![pcRef].conn = connected]
    /\ isConnected' = connected
    /\ UNCHANGED <<role, chain, hs, pending, pcRef, isJoining, isStreaming,
                   localStream, sockUp, joinedSock, ncand, ndesc, nenv,
                   applied, sent>>

DesktopNext ==
    \/ DJoinRoom
    \/ \E valid \in BOOLEAN : DOffer(valid)
    \/ \E k \in 1..MaxOffers : DSrdDone(k)
    \/ \E k \in 1..MaxOffers : DCreateAnswerDone(k)
    \/ \E k \in 1..MaxOffers : DSldDone(k)
    \/ \E k \in 1..MaxOffers : DFlushNext(k)
    \/ \E valid \in BOOLEAN : DAnswer(valid)
    \/ \E k \in 1..MaxOffers : DAnswerSrdDone(k)
    \/ DIceCandidate
    \/ \E c \in BOOLEAN : DConnectionStateChange(c)

(***************************************************************************)
(* CameraCapture (offerer)                                                 *)
(***************************************************************************)
\* The answer handler's flush loop from element j on, run until its next
\* await: peerConnectionRef.current.addIceCandidate(c) is called on the
\* connection the ref holds now; with a null ref the call throws inside the
\* loop's try, and the loop goes on to the next element.
MFlushFrom(k, j, hsx, pcsx) ==
    LET arr == LoopArr(hs[k])
    IN IF j <= Len(arr) /\ pcRef # 0
       THEN /\ applied' = Append(applied, Applied(arr[j], pcRef, pcsx))
            /\ hs' = [hsx EXCEPT ![k].at = "flush", ![k].i = j, ![k].pc = pcRef]
            /\ chain' = Enq(Deq(chain, hs[k].pc), pcRef, k)
            /\ UNCHANGED pending
       ELSE /\ pending' = <<>>
            /\ hs' = [Detach(hsx, k, pending) EXCEPT ![k] = HDone]
            /\ chain' = Deq(chain, hs[k].pc)
            /\ UNCHANGED applied

\* socket.on('ice-candidate'): apply or queue
MIceCandidateHandler(c) ==
    IF pcRef # 0 /\ pcs[pcRef].rd
    THEN /\ applied' = Append(applied, Applied(c, pcRef, pcs))
         /\ UNCHANGED <<pending, queued>>
    ELSE /\ pending' = Append(pending, c)
         /\ queued' = queued \cup {c}
         /\ UNCHANGED applied

\* socket.on('connect')
MSocketConnect ==
    /\ role = "mobile"
    /\ UNCHANGED coordVars
    /\ UNCHANGED startFailed
    /\ UNCHANGED sessVars
    /\ UNCHANGED queued
    /\ ~sockUp
    /\ sockUp' = TRUE
    /\ UNCHANGED <<role, pcs, chain, hs, pending, pcRef, isJoining, isConnected,
                   isStreaming, localStream, joinedSock, ncand, ndesc, nenv,
                   applied, sent>>

\* socket.on('disconnect')
MSocketDisconnect ==
    /\ role = "mobile"
    /\ UNCHANGED coordVars
    /\ UNCHANGED startFailed
    /\ UNCHANGED sessVars
    /\ UNCHANGED queued
    /\ sockUp
    /\ nenv < MaxEnvEvents
    /\ nenv' = nenv + 1
    /\ sockUp' = FALSE
    /\ joinedSock' = FALSE
    /\ isConnected' = FALSE
    /\ UNCHANGED <<role, pcs, chain, hs, pending, pcRef, isJoining, isStreaming,
                   localStream, ncand, ndesc, applied, sent>>

\* A startVideoSharing that joins the room before it asks for the camera.
BrokenStartJoinsFirst(ok) ==
    /\ role = "mobile"
    /\ UNCHANGED coordVars
    /\ UNCHANGED sessVars
    /\ UNCHANGED queued
    /\ ~isStreaming
    /\ startFailed' = ~ok
    /\ sent' = Append(sent, <<"join-room", ClientRoom>>)
    /\ joinedSock' = TRUE
    /\ localStream' = ok
    /\ isStreaming' = ok
    /\ UNCHANGED <<role, pcs, chain, hs, pending, pcRef, isJoining, isConnected,
                   sockUp, ncand, ndesc, nenv, applied>>

\* startVideoSharing (the Start Camera button); ok: getUserMedia succeeded
\* (with the preferred or with the basic constraints)
MStartVideoSharing(ok) ==
    /\ role = "mobile"
    /\ UNCHANGED coordVars
    /\ UNCHANGED sessVars
    /\ UNCHANGED queued
    /\ ~isStreaming
    /\ startFailed' = ~ok
    /\ IF ok
       THEN /\ localStream' = TRUE
            /\ sent' = Append(sent, <<"join-room", ClientRoom>>)
            /\ joinedSock' = TRUE
            /\ isStreaming' = TRUE
       ELSE UNCHANGED <<localStream, sent, joinedSock, isStreaming>>
    /\ UNCHANGED <<role, pcs, chain, hs, pending, pcRef, isJoining, isConnected,
                   sockUp, ncand, ndesc, nenv, applied>>

\* The identity of the next RTCPeerConnection object the client creates.
NextPc == Cardinality({p \in PcIds : pcs[p].st # "none"}) + 1

\* connectToDesktop (the Connect to Desktop button), up to its first await
MConnectToDesktop ==
    /\ role = "mobile"
    /\ UNCHANGED coordVars
    /\ UNCHANGED startFailed
    /\ UNCHANGED sessVars
    /\ UNCHANGED queued
    /\ isStreaming /\ ~isConnected
    /\ nenv < MaxEnvEvents
    /\ nenv' = nenv + 1
    /\ IF localStream
       THEN LET p == NextPc
            IN /\ pcs' = [pcs EXCEPT ![p] = PcNew]
               /\ pcRef' = p
               /\ hs' = Append(hs, HNew("connect", p, "createOffer", TRUE))
               /\ chain' = Enq(chain, p, Len(hs) + 1)
       ELSE UNCHANGED <<pcs, pcRef, hs, chain>>
    /\ UNCHANGED <<role, pending, isJoining, isConnected, isStreaming,
                   localStream, sockUp, joinedSock, ncand, ndesc,
                   applied, sent>>

\* connectToDesktop: await createOffer() settles
MCreateOfferDone(k) ==
    /\ role = "mobile"
    /\ UNCHANGED coordVars
    /\ UNCHANGED startFailed
    /\ UNCHANGED sessVars
    /\ UNCHANGED queued
    /\ k \in DOMAIN hs /\ hs[k].kind = "connect" /\ hs[k].at = "createOffer"
    /\ IsHead(k, hs[k].pc)
    /\ LET p == hs[k].pc
       IN IF OpOk(pcs[p], "createOffer", TRUE)
          THEN /\ hs' = [hs EXCEPT ![k].at = "sld"]
               /\ chain' = Enq(Deq(chain, p), p, k)
          ELSE /\ hs' = [hs EXCEPT ![k] = HDone]
               /\ chain' = Deq(chain, p)
    /\ UNCHANGED <<role, pcs, pending, pcRef, isJoining, isConnected,
                   isStreaming, localStream, sockUp, joinedSock, ncand, ndesc,
                   nenv, applied, sent>>

\* connectToDesktop: await setLocalDescription(offer) settles; the offer is
\* emitted
MOfferSldDone(k) ==
    /\ role = "mobile"
    /\ UNCHANGED coordVars
    /\ UNCHANGED startFailed
    /\ UNCHANGED sessVars
    /\ UNCHANGED queued
    /\ k \in DOMAIN hs /\ hs[k].kind = "connect" /\ hs[k].at = "sld"
    /\ IsHead(k, hs[k].pc)
    /\ LET p == hs[k].pc
       IN /\ hs' = [hs EXCEPT ![k] = HDone]
          /\ chain' = Deq(chain, p)
          /\ IF OpOk(pcs[p], "sldOffer", TRUE)
             THEN /\ pcs' = [pcs EXCEPT ![p] = OpDone(@, "sldOffer")]
                  /\ sent' = Append(sent, <<"offer", ClientRoom>>)
             ELSE UNCHANGED <<pcs, sent>>
    /\ UNCHANGED <<role, pending, pcRef, isJoining, isConnected, isStreaming,
                   localStream, sockUp, joinedSock, ncand, ndesc, nenv,
                   applied>>

\* stopStreaming (the Stop Camera button)
MStopStreaming ==
    /\ role = "mobile"
    /\ UNCHANGED coordVars
    /\ UNCHANGED startFailed
    /\ UNCHANGED sessVars
    /\ UNCHANGED queued
    /\ isStreaming
    /\ nenv < MaxEnvEvents
    /\ nenv' = nenv + 1
    /\ localStream' = FALSE
    /\ IF pcRef # 0
       THEN /\ pcs' = [pcs EXCEPT ![pcRef].st = "closed", ![pcRef].conn = FALSE]
            /\ pcRef' = 0
       ELSE UNCHANGED <<pcs, pcRef>>
    /\ isStreaming' = FALSE
    /\ isConnected' = FALSE
    /\ UNCHANGED <<role, chain, hs, pending, isJoining, sockUp, joinedSock,
                   ncand, ndesc, applied, sent>>

\* socket.on('answer'), up to its first await
MAnswer(valid) ==
    /\ role = "mobile"
    /\ UNCHANGED coordVars
    /\ UNCHANGED startFailed
    /\ UNCHANGED sessVars
    /\ UNCHANGED queued
    /\ sockUp /\ joinedSock
    /\ ndesc < MaxAnswers
    /\ ndesc' = ndesc + 1
    /\ IF pcRef # 0
       THEN /\ hs' = Append(hs, HNew("answer", pcRef, "srd", valid))
            /\ chain' = Enq(chain, pcRef, Len(hs) + 1)
       ELSE UNCHANGED <<hs, chain>>
    /\ UNCHANGED <<role, pcs, pending, pcRef, isJoining, isConnected,
                   isStreaming, localStream, sockUp, joinedSock, ncand, nenv,
                   applied, sent>>

\* socket.on('answer'): await setRemoteDescription(answer) settles; the
\* client reports connected and the flush of the pending candidates starts
MAnswerSrdDone(k) ==
    /\ role = "mobile"
    /\ UNCHANGED coordVars
    /\ UNCHANGED startFailed
    /\ UNCHANGED sessVars
    /\ UNCHANGED queued
    /\ k \in DOMAIN hs /\ hs[k].kind = "answer" /\ hs[k].at = "srd"
    /\ IsHead(k, hs[k].pc)
    /\ LET p == hs[k].pc
       IN IF OpOk(pcs[p], "srdAnswer", hs[k].valid)
          THEN /\ pcs' = [pcs EXCEPT ![p] = OpDone(@, "srdAnswer")]
               /\ isConnected' = TRUE
               /\ IF Len(pending) > 0
                  THEN MFlushFrom(k, 1, hs, pcs')
                  ELSE /\ hs' = [hs EXCEPT ![k] = HDone]
                       /\ chain' = Deq(chain, p)
                       /\ UNCHANGED <<pending, applied>>
          ELSE /\ hs' = [hs EXCEPT ![k] = HRejected]
               /\ chain' = Deq(chain, p)
               /\ UNCHANGED <<pcs, isConnected, pending, applied>>
    /\ UNCHANGED <<role, pcRef, isJoining, isStreaming, localStream, sockUp,
                   joinedSock, ncand, ndesc, nenv, sent>>

\* socket.on('answer'): await addIceCandidate(c) of the flush loop settles
\* (resolved or rejected: the rejection is caught inside the loop)
MFlushNext(k) ==
    /\ role = "mobile"
    /\ UNCHANGED coordVars
    /\ UNCHANGED startFailed
    /\ UNCHANGED sessVars
    /\ UNCHANGED queued
    /\ k \in DOMAIN hs /\ hs[k].kind = "answer" /\ hs[k].at = "flush"
    /\ IsHead(k, hs[k].pc)
    /\ MFlushFrom(k, hs[k].i + 1, hs, pcs)
    /\ UNCHANGED <<role, pcs, pcRef, isJoining, isConnected, isStreaming,
                   localStream, sockUp, joinedSock, ncand, ndesc, nenv, sent>>

\* socket.on('ice-candidate')
MIceCandidate ==
    /\ role = "mobile"
    /\ UNCHANGED coordVars
    /\ UNCHANGED startFailed
    /\ UNCHANGED sessVars
    /\ sockUp /\ joinedSock
    /\ ncand < MaxMobileCands
    /\ ncand' = ncand + 1
    /\ MIceCandidateHandler(ncand + 1)
    /\ UNCHANGED <<role, pcs, chain, hs, pcRef, isJoining, isConnected,
                   isStreaming, localStream, sockUp, joinedSock, ndesc, nenv,
                   sent>>

\* peerConnection.onconnectionstatechange of connection p: its
\* connectionState became 'connected' (connected) or left it
MConnectionStateChange(p, connected) ==
    /\ role = "mobile"
    /\ UNCHANGED coordVars
    /\ UNCHANGED startFailed
    /\ UNCHANGED sessVars
    /\ UNCHANGED queued
    /\ pcs[p].st = "open"
    /\ connected => (pcs[p].rd /\ pcs[p].ld)
    /\ pcs[p].conn # connected
    /\ pcs' = [pcs EXCEPT ![p].conn = connected]
    /\ isConnected' = IF connected THEN TRUE ELSE isConnected
    /\ UNCHANGED <<role, chain, hs, pending, pcRef, isJoining, isStreaming,
                   localStream, sockUp, joinedSock, ncand, ndesc, nenv,
                   applied, sent>>

MaxHandlers == MaxAnswers + MaxEnvEvents

MobileNext ==
    \/ MSocketConnect
    \/ MSocketDisconnect
    \/ MStartVideoSharing(TRUE)
    \/ MConnectToDesktop
    \/ \E k \in 1..MaxHandlers : MCreateOfferDone(k)
    \/ \E k \in 1..MaxHandlers : MOfferSldDone(k)
    \/ MStopStreaming
    \/ \E valid \in BOOLEAN : MAnswer(valid)
    \/ \E k \in 1..MaxHandlers : MAnswerSrdDone(k)
    \/ \E k \in 1..MaxHandlers : MFlushNext(k)
    \/ MIceCandidate
    \/ \E p \in PcIds, c \in BOOLEAN : MConnectionStateChange(p, c)

(***************************************************************************)
(* Specifications                                                          *)
(***************************************************************************)
\* No session: the desktop of the session part does not exist.
SessIdle ==
    /\ dPc = PcNone
    /\ dChain = <<>>
    /\ dHs = <<>>
    /\ dIsJoining = FALSE
    /\ dIsConnected = FALSE
    /\ dSent = <<>>
    /\ dRead = 0
    /\ mRead = 0
    /\ offersOut = 0
    /\ offersIn = 0
    /\ answersOut = 0
    /\ nlocal = [s \in {1, 2} |-> 0]
    /\ candsOut = [s \in {1, 2} |-> 0]
    /\ isProcessing = FALSE
    /\ processIntervalRef = FALSE
    /\ processingRef = FALSE
    /\ outstanding = 0
    /\ droppedFrames = 0
    /\ nticks = 0
    /\ wState = "loading"
    /\ atWorker = 0
    /\ replies = <<>>
    /\ detections = FALSE
    /\ frameCount = 0
    /\ totalFrames = 0
    /\ metricsDropped = 0
    /\ sessionFrames = 0
    /\ sessionSkipped = 0
    /\ vRoomId = ""
    /\ vSock = 0

(***************************************************************************)
(* DesktopViewer: frame capture and the detection worker                   *)
(*                                                                         *)
(* The video and canvas elements exist once a remote stream was received   *)
(* (the Start Detection button is rendered only then).  The worker is      *)
(* created and sent 'init' when the viewer mounts; it handles each         *)
(* process-frame message by itself and posts its answer, which the viewer  *)
(* handles in a later task.                                                *)
(***************************************************************************)
DetIdleRest ==
    /\ UNCHANGED coordVars
    /\ UNCHANGED clientVars
    /\ UNCHANGED <<dPc, dChain, dHs, dIsJoining, dIsConnected, dSent, dRead,
                   mRead, offersOut, offersIn, answersOut>>
    /\ UNCHANGED iceVars
    /\ UNCHANGED viewVars

\* startProcessing (the Start Detection button, rendered when
\* !isProcessing && !processIntervalRef.current)
startProcessing ==
    /\ role = "desktop"
    /\ ~isProcessing /\ ~processIntervalRef
    /\ isProcessing' = TRUE
    /\ frameCount' = 0
    /\ processIntervalRef' = TRUE
    /\ sessionFrames' = 0
    /\ sessionSkipped' = 0
    /\ UNCHANGED <<processingRef, outstanding, droppedFrames, nticks>>
    /\ UNCHANGED <<wState, atWorker, replies, detections, totalFrames,
                   metricsDropped>>
    /\ DetIdleRest

\* A stopProcessing that also clears the in-flight flag.
BrokenStopProcessingClearsFlag ==
    /\ role = "desktop"
    /\ isProcessing
    /\ processIntervalRef' = FALSE
    /\ isProcessing' = FALSE
    /\ processingRef' = FALSE
    /\ detections' = FALSE
    /\ UNCHANGED <<outstanding, droppedFrames, nticks>>
    /\ UNCHANGED <<wState, atWorker, replies, frameCount, totalFrames,
                   metricsDropped, sessionFrames, sessionSkipped>>
    /\ DetIdleRest

\* stopProcessing (the Stop Detection button, rendered when isProcessing)
stopProcessing ==
    /\ role = "desktop"
    /\ isProcessing
    /\ processIntervalRef' = FALSE
    /\ isProcessing' = FALSE
    /\ detections' = FALSE
    /\ UNCHANGED <<processingRef, outstanding, droppedFrames, nticks>>
    /\ UNCHANGED <<wState, atWorker, replies, frameCount, totalFrames,
                   metricsDropped, sessionFrames, sessionSkipped>>
    /\ DetIdleRest

\* The setInterval callback of startProcessing; ready: video.readyState is 4
\* and the canvas has a 2d context
IntervalTick(ready) ==
    /\ role = "desktop"
    /\ processIntervalRef
    /\ nticks < MaxTicks
    /\ nticks' = nticks + 1
    /\ IF processingRef
       THEN /\ droppedFrames' = droppedFrames + 1
            /\ sessionSkipped' = sessionSkipped + 1
            /\ UNCHANGED <<isProcessing, processingRef, outstanding, atWorker>>
       ELSE IF ready
       THEN /\ isProcessing' = TRUE
            /\ processingRef' = TRUE
            /\ outstanding' = outstanding + 1
            /\ atWorker' = atWorker + 1
            /\ UNCHANGED <<droppedFrames, sessionSkipped>>
       ELSE UNCHANGED <<isProcessing, processingRef, outstanding, droppedFrames,
                        atWorker, sessionSkipped>>
    /\ UNCHANGED processIntervalRef
    /\ UNCHANGED <<wState, replies, detections, frameCount, totalFrames,
                   metricsDropped, sessionFrames>>
    /\ DetIdleRest

\* Worker: initializeModel settles (ok: the ONNX session was created)
initializeModel(ok) ==
    /\ role = "desktop"
    /\ wState = "loading"
    /\ wState' = IF ok THEN "ready" ELSE "failed"
    /\ UNCHANGED <<isProcessing, processIntervalRef, processingRef, outstanding,
                   droppedFrames, nticks>>
    /\ UNCHANGED <<atWorker, replies, detections, frameCount, totalFrames,
                   metricsDropped, sessionFrames, sessionSkipped>>
    /\ DetIdleRest

\* Worker: the detections of processFrame's result; n: the detections the
\* inference finds (an inference that throws gives the empty list)
processFrame(throws, n) == IF throws THEN 0 ELSE n

\* A worker that does not answer while its model is not initialised.
BrokenOnmessageSilent(initialized, throws, n) ==
    IF ~initialized
    THEN <<>>
    ELSE <<[type |-> "detection-result", n |-> processFrame(throws, n)]>>

\* Worker: self.onmessage for a process-frame message: the messages it posts
onmessage(initialized, throws, n) ==
    IF ~initialized
    THEN <<[type |-> "error", n |-> 0]>>
    ELSE <<[type |-> "detection-result", n |-> processFrame(throws, n)]>>

\* Worker: self.onmessage handles a process-frame message
WorkerProcessFrame(throws, n) ==
    /\ role = "desktop"
    /\ atWorker > 0
    /\ atWorker' = atWorker - 1
    /\ replies' = replies \o onmessage(wState = "ready", throws, n)
    /\ UNCHANGED <<isProcessing, processIntervalRef, processingRef, outstanding,
                   droppedFrames, nticks>>
    /\ UNCHANGED <<wState, detections, frameCount, totalFrames, metricsDropped,
                   sessionFrames, sessionSkipped>>
    /\ DetIdleRest

\* worker.onmessage with 'detection-result' or 'error': the worker's answer
\* to a frame it was sent
WorkerAnswer ==
    /\ role = "desktop"
    /\ replies # <<>>
    /\ replies' = Tail(replies)
    /\ outstanding' = outstanding - 1
    /\ isProcessing' = FALSE
    /\ processingRef' = FALSE
    /\ IF Head(replies).type = "detection-result"
       THEN /\ detections' = (Head(replies).n > 0)
            /\ frameCount' = frameCount + 1
            /\ totalFrames' = totalFrames + 1
            /\ sessionFrames' = sessionFrames + 1
            /\ metricsDropped' = metricsDropped
       ELSE UNCHANGED <<detections, frameCount, totalFrames, sessionFrames,
                        metricsDropped>>
    /\ UNCHANGED <<processIntervalRef, droppedFrames, nticks>>
    /\ UNCHANGED <<wState, atWorker, sessionSkipped>>
    /\ DetIdleRest

DetectNext ==
    \/ startProcessing
    \/ stopProcessing
    \/ \E ready \in BOOLEAN : IntervalTick(ready)
    \/ \E ok \in BOOLEAN : initializeModel(ok)
    \/ \E throws \in BOOLEAN, n \in 0..MaxDetections : WorkerProcessFrame(throws, n)
    \/ WorkerAnswer

(***************************************************************************)
(* WebRTCManager (utils/webrtc.ts)                                         *)
(*                                                                         *)
(* this.peerConnection is pcRef; the methods are called by the owner of    *)
(* the instance in any order.  An async method runs up to its first await  *)
(* when it is called and continues when the awaited promise settles.       *)
(***************************************************************************)
\* The variables a WebRTCManager does not have.
WIdleRest ==
    /\ UNCHANGED coordVars
    /\ UNCHANGED sessVars
    /\ UNCHANGED <<role, pending, isJoining, isConnected, isStreaming,
                   localStream, sockUp, joinedSock, queued, sent, startFailed>>

\* initializePeerConnection: a new RTCPeerConnection replaces
\* this.peerConnection
WInitializePeerConnection ==
    /\ role = "manager"
    /\ nenv < MaxEnvEvents
    /\ nenv' = nenv + 1
    /\ pcs' = [pcs EXCEPT ![NextPc] = PcNew]
    /\ pcRef' = NextPc
    /\ UNCHANGED <<chain, hs, ncand, ndesc, applied>>
    /\ WIdleRest

\* createOffer, createAnswer(offer) or handleAnswer(answer) is called:
\* up to the first await (nothing happens without a peer connection:
\* the method throws)
WCall(method, valid) ==
    /\ role = "manager"
    /\ pcRef # 0
    /\ ndesc < MaxOffers
    /\ ndesc' = ndesc + 1
    /\ hs' = Append(hs, HNew(method, pcRef,
                             IF method = "createOffer" THEN "createOffer" ELSE "srd",
                             valid))
    /\ chain' = Enq(chain, pcRef, Len(hs) + 1)
    /\ UNCHANGED <<pcs, pcRef, ncand, nenv, applied>>
    /\ WIdleRest

\* The RTCPeerConnection operation method invocation h awaits.
WOp(h) ==
    CASE h.kind = "createOffer" /\ h.at = "createOffer"   -> "createOffer"
      [] h.kind = "createOffer" /\ h.at = "sld"           -> "sldOffer"
      [] h.kind = "createAnswer" /\ h.at = "srd"          -> "srdOffer"
      [] h.kind = "createAnswer" /\ h.at = "createAnswer" -> "createAnswer"
      [] h.kind = "createAnswer" /\ h.at = "sld"          -> "sldAnswer"
      [] h.kind = "handleAnswer" /\ h.at = "srd"          -> "srdAnswer"

\* The await that follows in the method ("done": it returns).
WNextAt(h) ==
    CASE h.kind = "createOffer" /\ h.at = "createOffer"   -> "sld"
      [] h.kind = "createAnswer" /\ h.at = "srd"          -> "createAnswer"
      [] h.kind = "createAnswer" /\ h.at = "createAnswer" -> "sld"
      [] OTHER                                            -> "done"

\* The promise method invocation k awaits settles: the method goes on to
\* its next await, returns, or throws
WSettle(k) ==
    /\ role = "manager"
    /\ k \in DOMAIN hs
    /\ hs[k].kind \in {"createOffer", "createAnswer", "handleAnswer"}
    /\ IsHead(k, hs[k].pc)
    /\ LET p == hs[k].pc
           op == WOp(hs[k])
       IN IF OpOk(pcs[p], op, hs[k].valid)
          THEN /\ pcs' = [pcs EXCEPT ![p] = OpDone(@, op)]
               /\ IF WNextAt(hs[k]) = "done"
                  THEN /\ hs' = [hs EXCEPT ![k] = HDone]
                       /\ chain' = Deq(chain, p)
                  ELSE /\ hs' = [hs EXCEPT ![k].at = WNextAt(hs[k])]
                       /\ chain' = Enq(Deq(chain, p), p, k)
          ELSE /\ hs' = [hs EXCEPT ![k] = HRejected]
               /\ chain' = Deq(chain, p)
               /\ UNCHANGED pcs
    /\ UNCHANGED <<pcRef, ncand, ndesc, nenv, applied>>
    /\ WIdleRest

\* handleIceCandidate(candidate): addIceCandidate is invoked on
\* this.peerConnection
WHandleIceCandidate ==
    /\ role = "manager"
    /\ pcRef # 0
    /\ ncand < MaxCands
    /\ ncand' = ncand + 1
    /\ applied' = Append(applied, Applied(ncand + 1, pcRef, pcs))
    /\ UNCHANGED <<pcs, pcRef, chain, hs, ndesc, nenv>>
    /\ WIdleRest

\* cleanup
Wcleanup ==
    /\ role = "manager"
    /\ pcRef # 0
    /\ nenv < MaxEnvEvents
    /\ nenv' = nenv + 1
    /\ pcs' = [pcs EXCEPT ![pcRef].st = "closed", ![pcRef].conn = FALSE]
    /\ pcRef' = 0
    /\ UNCHANGED <<chain, hs, ncand, ndesc, applied>>
    /\ WIdleRest

ManagerNext ==
    \/ WInitializePeerConnection
    \/ \E m \in {"createOffer", "createAnswer", "handleAnswer"}, valid \in BOOLEAN :
          WCall(m, valid)
    \/ \E k \in 1..MaxOffers : WSettle(k)
    \/ WHandleIceCandidate
    \/ Wcleanup

\* The coordinator and the connections of its participants.
Init == CoordInit /\ role = "none" /\ ClientIdle /\ SessIdle

Next == CoordNext

Spec == Init /\ [][Next]_vars

\* The desktop viewer and the events it receives.
DesktopInit == CoordInit /\ role = "desktop" /\ ClientIdle /\ SessIdle

DesktopSpec == DesktopInit /\ [][DesktopNext]_vars

\* The mobile camera client and the events it receives.
MobileInit == CoordInit /\ role = "mobile" /\ ClientIdle /\ SessIdle

MobileSpec == MobileInit /\ [][MobileNext]_vars

\* One peer session client (either component) and the events it receives.
ClientInit == CoordInit /\ role \in {"desktop", "mobile"} /\ ClientIdle /\ SessIdle

ClientNext ==
    \/ DesktopNext
    \/ MobileNext

ClientSpec == ClientInit /\ [][ClientNext]_vars

(***************************************************************************)
(* A session: the mobile camera client (the client variables, with its     *)
(* actions above), the coordinator, and a desktop viewer, all connected.   *)
(* No participant disconnects or stops and no ICE candidates are           *)
(* exchanged: the part of the program that negotiates the descriptions.    *)
(***************************************************************************)
\* The connection identities of the two participants at the coordinator.
MobileSock == 1
DesktopSock == 2

\* The events emitted to participant q when the coordinator handles event e
\* (a pair <<kind, roomId>>) of participant s.
CoordEmits(e, s, q) ==
    IF e[1] = "join-room"
    THEN ToEmit([sioRooms EXCEPT ![e[2]] = @ \cup {s}], s, e[2], "user-joined", s)[q]
    ELSE ToEmit(sioRooms, s, e[2], e[1], "O")[q]

\* The rooms map and socket.io's rooms after the coordinator handled e of s.
CoordHandle(e, s) ==
    IF e[1] = "join-room"
    THEN /\ sioRooms' = [sioRooms EXCEPT ![e[2]] = @ \cup {s}]
         /\ rooms' = joinRoomHandler(rooms, s, e[2])
    ELSE UNCHANGED <<rooms, sioRooms>>

\* The coordinator handles the next event of the mobile client.
SCoordMobile ==
    /\ role = "mobile"
    /\ mRead < Len(sent)
    /\ mRead' = mRead + 1
    /\ LET e == sent[mRead + 1]
       IN /\ CoordHandle(e, MobileSock)
          /\ offersOut' = IF e[1] = "offer"
                          THEN offersOut + Len(CoordEmits(e, MobileSock, DesktopSock))
                          ELSE offersOut
          /\ candsOut' = IF e[1] = "ice-candidate"
                         THEN [candsOut EXCEPT ![DesktopSock] =
                                  @ + Len(CoordEmits(e, MobileSock, DesktopSock))]
                         ELSE candsOut
    /\ UNCHANGED nlocal
    /\ UNCHANGED detVars
    /\ UNCHANGED <<sockState, lastEv, lastEmit, live, lateJoin, reJoin,
                   lastRes>>
    /\ UNCHANGED clientVars
    /\ UNCHANGED <<dPc, dChain, dHs, dIsJoining, dIsConnected, dSent, dRead,
                   offersIn, answersOut>>

\* The coordinator handles the next event of the desktop viewer.
SCoordDesktop ==
    /\ role = "mobile"
    /\ dRead < Len(dSent)
    /\ dRead' = dRead + 1
    /\ LET e == dSent[dRead + 1]
       IN /\ CoordHandle(e, DesktopSock)
          /\ answersOut' = IF e[1] = "answer"
                           THEN answersOut + Len(CoordEmits(e, DesktopSock, MobileSock))
                           ELSE answersOut
          /\ candsOut' = IF e[1] = "ice-candidate"
                         THEN [candsOut EXCEPT ![MobileSock] =
                                  @ + Len(CoordEmits(e, DesktopSock, MobileSock))]
                         ELSE candsOut
    /\ UNCHANGED nlocal
    /\ UNCHANGED detVars
    /\ UNCHANGED <<sockState, lastEv, lastEmit, live, lateJoin, reJoin,
                   lastRes>>
    /\ UNCHANGED clientVars
    /\ UNCHANGED <<dPc, dChain, dHs, dIsJoining, dIsConnected, dSent, mRead,
                   offersOut, offersIn>>

\* DesktopViewer.joinRoom (the Join Room button)
SDJoinRoom ==
    /\ role = "mobile"
    /\ ~dIsJoining /\ ~dIsConnected
    /\ dIsJoining' = TRUE
    /\ dPc' = IF dPc.st = "none" THEN PcNew ELSE dPc
    /\ dSent' = Append(dSent, <<"join-room", ClientRoom>>)
    /\ UNCHANGED coordVars
    /\ UNCHANGED clientVars
    /\ UNCHANGED iceVars
    /\ UNCHANGED detVars
    /\ UNCHANGED <<dChain, dHs, dIsConnected, dRead, mRead, offersOut, offersIn,
                   answersOut>>

\* DesktopViewer socket.on('offer'), up to its first await
SDOffer ==
    /\ role = "mobile"
    /\ offersIn < offersOut
    /\ offersIn' = offersIn + 1
    /\ dIsJoining' = FALSE
    /\ dPc' = IF dPc.st = "none" THEN PcNew ELSE dPc
    /\ dHs' = Append(dHs, "srd")
    /\ dChain' = Append(dChain, Len(dHs) + 1)
    /\ UNCHANGED coordVars
    /\ UNCHANGED clientVars
    /\ UNCHANGED iceVars
    /\ UNCHANGED detVars
    /\ UNCHANGED <<dIsConnected, dSent, dRead, mRead, offersOut, answersOut>>

\* The desktop handler k is suspended at await `at` and its promise settles next.
SDHead(k, at) ==
    /\ k \in DOMAIN dHs /\ dHs[k] = at
    /\ dChain # <<>> /\ Head(dChain) = k

\* DesktopViewer socket.on('offer'): await setRemoteDescription(offer) settles
SDSrdDone(k) ==
    /\ role = "mobile"
    /\ SDHead(k, "srd")
    /\ IF OpOk(dPc, "srdOffer", TRUE)
       THEN /\ dPc' = OpDone(dPc, "srdOffer")
            /\ dHs' = [dHs EXCEPT ![k] = "createAnswer"]
            /\ dChain' = Append(Tail(dChain), k)
            /\ UNCHANGED dIsJoining
       ELSE /\ dHs' = [dHs EXCEPT ![k] = "done"]
            /\ dChain' = Tail(dChain)
            /\ dIsJoining' = FALSE
            /\ UNCHANGED dPc
    /\ UNCHANGED coordVars
    /\ UNCHANGED clientVars
    /\ UNCHANGED iceVars
    /\ UNCHANGED detVars
    /\ UNCHANGED <<dIsConnected, dSent, dRead, mRead, offersOut, offersIn,
                   answersOut>>

\* DesktopViewer socket.on('offer'): await createAnswer() settles
SDCreateAnswerDone(k) ==
    /\ role = "mobile"
    /\ SDHead(k, "createAnswer")
    /\ IF OpOk(dPc, "createAnswer", TRUE)
       THEN /\ dHs' = [dHs EXCEPT ![k] = "sld"]
            /\ dChain' = Append(Tail(dChain), k)
            /\ UNCHANGED dIsJoining
       ELSE /\ dHs' = [dHs EXCEPT ![k] = "done"]
            /\ dChain' = Tail(dChain)
            /\ dIsJoining' = FALSE
    /\ UNCHANGED coordVars
    /\ UNCHANGED clientVars
    /\ UNCHANGED iceVars
    /\ UNCHANGED detVars
    /\ UNCHANGED <<dPc, dIsConnected, dSent, dRead, mRead, offersOut, offersIn,
                   answersOut>>

\* DesktopViewer socket.on('offer'): await setLocalDescription(answer) settles
\* and the answer is emitted (no candidate is pending in a session)
SDSldDone(k) ==
    /\ role = "mobile"
    /\ SDHead(k, "sld")
    /\ dHs' = [dHs EXCEPT ![k] = "done"]
    /\ dChain' = Tail(dChain)
    /\ IF OpOk(dPc, "sldAnswer", TRUE)
       THEN /\ dPc' = OpDone(dPc, "sldAnswer")
            /\ dSent' = Append(dSent, <<"answer", ClientRoom>>)
            /\ UNCHANGED dIsJoining
       ELSE /\ dIsJoining' = FALSE
            /\ UNCHANGED <<dPc, dSent>>
    /\ UNCHANGED coordVars
    /\ UNCHANGED clientVars
    /\ UNCHANGED iceVars
    /\ UNCHANGED detVars
    /\ UNCHANGED <<dIsConnected, dRead, mRead, offersOut, offersIn, answersOut>>

\* DesktopViewer peerConnection.onconnectionstatechange
SDConnectionStateChange(connected) ==
    /\ role = "mobile"
    /\ dPc.st = "open"
    /\ connected => (dPc.rd /\ dPc.ld)
    /\ dPc.conn # connected
    /\ dPc' = [dPc EXCEPT !.conn = connected]
    /\ dIsConnected' = connected
    /\ UNCHANGED coordVars
    /\ UNCHANGED clientVars
    /\ UNCHANGED iceVars
    /\ UNCHANGED detVars
    /\ UNCHANGED <<dChain, dHs, dIsJoining, dSent, dRead, mRead, offersOut,
                   offersIn, answersOut>>

\* CameraCapture socket.on('answer'), up to its first await: an answer the
\* coordinator emitted to the mobile arrives
SMAnswer ==
    /\ role = "mobile"
    /\ ndesc < answersOut
    /\ ndesc' = ndesc + 1
    /\ IF pcRef # 0
       THEN /\ hs' = Append(hs, HNew("answer", pcRef, "srd", TRUE))
            /\ chain' = Enq(chain, pcRef, Len(hs) + 1)
       ELSE UNCHANGED <<hs, chain>>
    /\ UNCHANGED <<role, pcs, pending, pcRef, isJoining, isConnected,
                   isStreaming, localStream, sockUp, joinedSock, ncand, nenv,
                   applied, queued, sent>>
    /\ UNCHANGED coordVars
    /\ UNCHANGED startFailed
    /\ UNCHANGED sessVars

\* Connect to Desktop pressed in a session
SMConnectToDesktop ==
    /\ NextPc <= MaxSessionOffers
    /\ MConnectToDesktop

\* A local candidate handler that holds a candidate back until the remote
\* description of its connection is set.
BrokenLocalCandidateWhenRemoteSet(p) ==
    /\ role = "mobile"
    /\ pcs[p].st = "open" /\ pcs[p].ld
    /\ nlocal[MobileSock] < MaxLocalCands
    /\ nlocal' = [nlocal EXCEPT ![MobileSock] = @ + 1]
    /\ sent' = IF pcs[p].rd
               THEN Append(sent, <<"ice-candidate", ClientRoom>>)
               ELSE sent
    /\ UNCHANGED <<role, pcs, chain, hs, pending, pcRef, isJoining, isConnected,
                   isStreaming, localStream, sockUp, joinedSock, ncand, ndesc,
                   nenv, applied, queued>>
    /\ UNCHANGED coordVars
    /\ UNCHANGED detVars
    /\ UNCHANGED startFailed
    /\ UNCHANGED <<dPc, dChain, dHs, dIsJoining, dIsConnected, dSent, dRead,
                   mRead, offersOut, offersIn, answersOut, candsOut>>

\* CameraCapture peerConnection.onicecandidate with a candidate: connection p
\* gathers once its local description is set
SMLocalCandidate(p) ==
    /\ role = "mobile"
    /\ pcs[p].st = "open" /\ pcs[p].ld
    /\ nlocal[MobileSock] < MaxLocalCands
    /\ nlocal' = [nlocal EXCEPT ![MobileSock] = @ + 1]
    /\ sent' = Append(sent, <<"ice-candidate", ClientRoom>>)
    /\ UNCHANGED <<role, pcs, chain, hs, pending, pcRef, isJoining, isConnected,
                   isStreaming, localStream, sockUp, joinedSock, ncand, ndesc,
                   nenv, applied, queued>>
    /\ UNCHANGED coordVars
    /\ UNCHANGED detVars
    /\ UNCHANGED startFailed
    /\ UNCHANGED <<dPc, dChain, dHs, dIsJoining, dIsConnected, dSent, dRead,
                   mRead, offersOut, offersIn, answersOut, candsOut>>

\* DesktopViewer peerConnection.onicecandidate with a candidate
SDLocalCandidate ==
    /\ role = "mobile"
    /\ dPc.st = "open" /\ dPc.ld
    /\ nlocal[DesktopSock] < MaxLocalCands
    /\ nlocal' = [nlocal EXCEPT ![DesktopSock] = @ + 1]
    /\ dSent' = Append(dSent, <<"ice-candidate", ClientRoom>>)
    /\ UNCHANGED coordVars
    /\ UNCHANGED detVars
    /\ UNCHANGED clientVars
    /\ UNCHANGED <<dPc, dChain, dHs, dIsJoining, dIsConnected, dRead, mRead,
                   offersOut, offersIn, answersOut, candsOut>>

\* Connect to Desktop pressed in a session that gathers candidates
GMConnectToDesktop ==
    /\ NextPc <= MaxGatherOffers
    /\ MConnectToDesktop

\* A session in which the camera may fail to start and the peer connections
\* discover candidates.
GatherNext ==
    \/ \E ok \in BOOLEAN : MStartVideoSharing(ok)
    \/ GMConnectToDesktop
    \/ \E k \in 1..MaxHandlers : MCreateOfferDone(k)
    \/ \E k \in 1..MaxHandlers : MOfferSldDone(k)
    \/ SMAnswer
    \/ \E k \in 1..MaxHandlers : MAnswerSrdDone(k)
    \/ \E p \in PcIds : SMLocalCandidate(p)
    \/ SCoordMobile
    \/ SCoordDesktop
    \/ SDJoinRoom
    \/ SDOffer
    \/ \E k \in 1..MaxHandlers : SDSrdDone(k)
    \/ \E k \in 1..MaxHandlers : SDCreateAnswerDone(k)
    \/ \E k \in 1..MaxHandlers : SDSldDone(k)
    \/ SDLocalCandidate

SessionNext ==
    \/ MStartVideoSharing(TRUE)
    \/ SMConnectToDesktop
    \/ \E k \in 1..MaxHandlers : MCreateOfferDone(k)
    \/ \E k \in 1..MaxHandlers : MOfferSldDone(k)
    \/ SMAnswer
    \/ \E k \in 1..MaxHandlers : MAnswerSrdDone(k)
    \/ \E p \in PcIds : MConnectionStateChange(p, TRUE)
    \/ SCoordMobile
    \/ SCoordDesktop
    \/ SDJoinRoom
    \/ SDOffer
    \/ \E k \in 1..MaxHandlers : SDSrdDone(k)
    \/ \E k \in 1..MaxHandlers : SDCreateAnswerDone(k)
    \/ \E k \in 1..MaxHandlers : SDSldDone(k)
    \/ \E c \in BOOLEAN : SDConnectionStateChange(c)

\* Both participants have a signaling connection and have joined nothing yet.
SessionInit ==
    /\ sockState = [s \in SocketIds |->
                       IF s \in {MobileSock, DesktopSock} THEN "open" ELSE "new"]
    /\ rooms = << >>
    /\ sioRooms = [r \in RoomIds |-> {}]
    /\ lastEv = [type |-> "none", sock |-> 0, room |-> NoRoom, payload |-> NoPayload]
    /\ lastEmit = NoEmit
    /\ live = [r \in RoomIds |-> {}]
    /\ lateJoin = FALSE
    /\ reJoin = FALSE
    /\ lastRes = NoResponse
    /\ role = "mobile"
    /\ ClientIdle
    /\ SessIdle

SessionSpec == SessionInit /\ [][SessionNext]_vars

GatherSpec == SessionInit /\ [][GatherNext]_vars

\* Every message in flight is eventually handled and every pending WebRTC
\* operation eventually settles; the users' button presses are under no
\* obligation.
SessionFairness ==
    /\ WF_vars(SCoordMobile)
    /\ WF_vars(SCoordDesktop)
    /\ WF_vars(SDOffer)
    /\ WF_vars(SMAnswer)
    /\ WF_vars(\E k \in 1..MaxHandlers : MCreateOfferDone(k))
    /\ WF_vars(\E k \in 1..MaxHandlers : MOfferSldDone(k))
    /\ WF_vars(\E k \in 1..MaxHandlers : MAnswerSrdDone(k))
    /\ WF_vars(\E k \in 1..MaxHandlers : SDSrdDone(k))
    /\ WF_vars(\E k \in 1..MaxHandlers : SDCreateAnswerDone(k))
    /\ WF_vars(\E k \in 1..MaxHandlers : SDSldDone(k))

SessionLiveSpec == SessionSpec /\ SessionFairness

(***************************************************************************)
(* Properties of the signaling coordinator                                 *)
(***************************************************************************)
IsRelay(e) == e.type \in RelayKinds

\* C1: after any sequence of join-room and disconnect events, the member set
\* held for each room equals exactly the set of connection identities that
\* joined that room and have not disconnected since.
C1_MemberSetEquality ==
    \A r \in RoomIds : Members(rooms, r) = live[r]

\* C1 witness: a disconnect has just removed a member from a room in which
\* another participant, who joined earlier, remains.
C1_Witness ==
    /\ lastEv.type = "disconnect"
    /\ \E r \in RoomIds, q \in SocketIds :
          /\ q \in live[r]
          /\ lastEmit[q] # <<>>
          /\ lastEv.sock \notin Members(rooms, r)

\* C2: no room exists with zero members; a room is a key of the /rooms
\* snapshot if and only if at least one participant that joined it is still
\* connected, and the snapshot then shows a count of at least 1.
C2_NoEmptyRoom ==
    \A r \in RoomIds :
        /\ (r \in DOMAIN roomInfo) <=> (Cardinality(live[r]) >= 1)
        /\ r \in DOMAIN roomInfo => roomInfo[r] >= 1
        /\ r \in DOMAIN rooms => rooms[r] # {}

\* C2 witness: the last member of a room has just disconnected and the room
\* is gone from the snapshot while another room still exists.
C2_Witness ==
    /\ lastEv.type = "disconnect"
    /\ \E r \in RoomIds : r \notin DOMAIN roomInfo
    /\ \E r \in RoomIds : r \in DOMAIN roomInfo
    /\ \A q \in SocketIds : lastEmit[q] = <<>>

\* C3: an offer, answer or ice-candidate sent by a member of room R is
\* delivered exactly once, with the same kind and the unmodified payload, to
\* each other current member of R, and to nobody else (not to the sender, not
\* to a participant outside R).
C3_RelayToOtherMembers ==
    (IsRelay(lastEv) /\ lastEv.sock \in Members(rooms, lastEv.room)) =>
        \A q \in SocketIds :
            lastEmit[q] =
                IF q \in rooms[lastEv.room] \ {lastEv.sock}
                THEN <<Event(lastEv.type, lastEv.payload)>>
                ELSE <<>>

\* C3 witness: a member relays into a room with another member while a third
\* connected participant is outside the room.
C3_Witness ==
    /\ IsRelay(lastEv)
    /\ lastEv.sock \in Members(rooms, lastEv.room)
    /\ Cardinality(rooms[lastEv.room]) = 2
    /\ \E q \in SocketIds :
          sockState[q] = "open" /\ q \notin rooms[lastEv.room]

\* C4: an offer, answer or ice-candidate sent by a participant that is not a
\* member of the named room is delivered to no participant at all.
C4_NonMemberRelayIsNoOp ==
    (IsRelay(lastEv) /\ lastEv.sock \notin Members(rooms, lastEv.room)) =>
        \A q \in SocketIds : lastEmit[q] = <<>>

\* C5 (as stated): when p joins R every other member of R receives one
\* user-joined event carrying p, p receives none, and the member count
\* afterwards is the previous count plus one.
C5_JoinCountPlusOne ==
    [][lastEv'.type = "join-room" =>
          LET p == lastEv'.sock
              R == lastEv'.room
          IN /\ \A q \in Members(rooms', R) \ {p} :
                    lastEmit'[q] = <<Event("user-joined", p)>>
             /\ lastEmit'[p] = <<>>
             /\ Cardinality(Members(rooms', R)) =
                    Cardinality(Members(rooms, R)) + 1]_vars

\* C5 (amended): when p joins R every other member of R receives one
\* user-joined event carrying p, p receives none, and the member count
\* afterwards is the previous count plus one if p was not yet a member of R
\* (1 when p is the first member) and the previous count if p already was.
C5_JoinNotifiesOthers ==
    [][lastEv'.type = "join-room" =>
          LET p == lastEv'.sock
              R == lastEv'.room
          IN /\ \A q \in Members(rooms', R) \ {p} :
                    lastEmit'[q] = <<Event("user-joined", p)>>
             /\ lastEmit'[p] = <<>>
             /\ p \in Members(rooms', R)
             /\ Cardinality(Members(rooms', R)) =
                    IF p \in Members(rooms, R)
                    THEN Cardinality(Members(rooms, R))
                    ELSE Cardinality(Members(rooms, R)) + 1]_vars

\* C5 witness: a participant has just joined a room that has two other
\* members, both of them notified.
C5_Witness ==
    /\ lastEv.type = "join-room"
    /\ Cardinality(Members(rooms, lastEv.room)) = 3
    /\ \A q \in rooms[lastEv.room] \ {lastEv.sock} : lastEmit[q] # <<>>

\* C6: when p disconnects it is removed from every room it belonged to; each
\* such room that still has members delivers one user-left event carrying p
\* to each remaining member, and each such room left empty is deleted.
C6_DisconnectLeavesAllRooms ==
    [][lastEv'.type = "disconnect" =>
          LET p == lastEv'.sock
              had == {r \in DOMAIN rooms : p \in rooms[r]}
          IN /\ \A r \in RoomIds : p \notin Members(rooms', r)
             /\ \A r \in had :
                   IF rooms[r] \ {p} = {}
                   THEN r \notin DOMAIN rooms'
                   ELSE r \in DOMAIN rooms' /\ rooms'[r] = rooms[r] \ {p}
             /\ \A q \in SocketIds :
                   lastEmit'[q] =
                       Repeat(Event("user-left", p),
                              Cardinality({r \in had : q \in rooms[r] \ {p}}))]_vars

\* C6 witness: a participant that was in two rooms has disconnected; one
\* remaining participant shared both rooms with it.
C6_Witness ==
    /\ lastEv.type = "disconnect"
    /\ \E q \in SocketIds : Len(lastEmit[q]) = 2

\* C11: the coordinator keeps no message history.  The only offer, answer or
\* ice-candidate events a handler emits are the one message it is relaying,
\* once, to participants that are members of the room at that moment (never
\* the sender); a join-room emits nothing to the joiner, so a message relayed
\* while q was outside the room is not delivered to q when q joins later.
C11_NoHistoryAtMostOnce ==
    [][/\ \A q \in SocketIds :
             (\E i \in DOMAIN lastEmit'[q] : lastEmit'[q][i].ev \in RelayKinds) =>
                 /\ IsRelay(lastEv')
                 /\ lastEmit'[q] = <<Event(lastEv'.type, lastEv'.payload)>>
                 /\ q \in Members(rooms, lastEv'.room)
                 /\ q # lastEv'.sock
       /\ lastEv'.type = "join-room" => lastEmit'[lastEv'.sock] = <<>>
       /\ (IsRelay(lastEv') /\ lastEv'.sock \in Members(rooms, lastEv'.room)) =>
             \A q \in SocketIds \ Members(rooms, lastEv'.room) :
                 lastEmit'[q] = <<>>]_vars

\* C11 witness: a member relayed a message to a room, then a participant that
\* was outside the room joined it and received nothing, while the member that
\* sent the message was told about the join.
C11_Witness ==
    /\ lateJoin
    /\ lastEv.type = "join-room"
    /\ lastEmit[lastEv.sock] = <<>>
    /\ \E p \in rooms[lastEv.room] \ {lastEv.sock} :
          lastEmit[p] = <<Event("user-joined", lastEv.sock)>>

\* String.prototype.toUpperCase on the room codes of the model.
toUpperCase(r) == IF r = "ab12cd" THEN "AB12CD" ELSE r

\* C12: room codes are case-insensitive at the coordinator: participants
\* that joined with codes differing only in letter case are members of the
\* same room, and a message relayed by a member reaches every participant
\* that joined under a code equal to the message's room up to letter case.
C12_CaseInsensitiveRooms ==
    /\ \A r1, r2 \in RoomIds :
          toUpperCase(r1) = toUpperCase(r2) =>
              \A p \in live[r1], q \in live[r2] :
                  \E r \in DOMAIN rooms : {p, q} \subseteq rooms[r]
    /\ (IsRelay(lastEv) /\ lastEv.sock \in Members(rooms, lastEv.room)) =>
          \A r \in RoomIds :
              toUpperCase(r) = toUpperCase(lastEv.room) =>
                  \A q \in Members(rooms, r) \ {lastEv.sock} :
                      lastEmit[q] = <<Event(lastEv.type, lastEv.payload)>>

(***************************************************************************)
(* Properties of a session                                                 *)
(***************************************************************************)
\* An offer of the mobile is on its way to the coordinator while both peers
\* are members of the room.
OfferWithBothJoined ==
    /\ {MobileSock, DesktopSock} \subseteq Members(rooms, ClientRoom)
    /\ \E i \in (mRead + 1)..Len(sent) : sent[i][1] = "offer"

\* The desktop applied an offer, set and sent its answer, and the mobile
\* applied an answer on a connection that holds its local offer.
Negotiated ==
    /\ dPc.rd /\ dPc.ld
    /\ \E i \in DOMAIN dSent : dSent[i][1] = "answer"
    /\ \E p \in PcIds : pcs[p].rd /\ pcs[p].ld

\* C13: if both peers are members of the room when the mobile emits its
\* offer, nobody disconnects or stops, every message is eventually delivered
\* and every WebRTC step eventually settles, then eventually the desktop has
\* applied the offer and sent its answer and the mobile has applied the
\* answer: both sides hold a local and a remote description.
C13_NegotiationCompletes == OfferWithBothJoined ~> Negotiated

\* C13 witness: negotiation completed although Connect to Desktop was pressed
\* twice and the desktop received both offers.
C13_Witness ==
    /\ Negotiated
    /\ offersIn = 2
    /\ mRead = Len(sent) /\ dRead = Len(dSent)
    /\ ndesc = answersOut

(***************************************************************************)
(* Properties of the peer session clients                                  *)
(***************************************************************************)
Range(f) == {f[i] : i \in DOMAIN f}

\* The candidates on which addIceCandidate was invoked.
AppliedCands == {applied[i].c : i \in DOMAIN applied}

\* The arrays still held by a suspended flush loop after the ref was re-assigned.
LoopCands == UNION {Range(hs[k].arr) : k \in DOMAIN hs}

\* peerConnectionRef.current && peerConnectionRef.current.remoteDescription
RemoteSet == pcRef # 0 /\ pcs[pcRef].rd

\* C7: in the desktop viewer addIceCandidate is never invoked on a peer
\* connection whose remote description has not been set, under every
\* interleaving of offers, candidates and the awaits of the offer handler; a
\* candidate that arrives before that is appended to the pending queue.
C7_DesktopNoEarlyCandidate ==
    [][role = "desktop" =>
          /\ \A i \in DOMAIN applied' : applied'[i].rd
          /\ (ncand' = ncand + 1 /\ ~RemoteSet) =>
                (pending' = Append(pending, ncand') /\ applied' = applied)]_vars

\* C7 witness: the desktop queued a candidate before the offer was applied,
\* flushed it after the answer, and applied a later candidate directly.
C7_Witness ==
    /\ role = "desktop"
    /\ queued # {}
    /\ \E i, j \in DOMAIN applied :
          applied[i].c \in queued /\ applied[j].c \notin queued
    /\ pending = <<>>

\* C8: in the mobile camera client addIceCandidate is never invoked on a
\* connection whose remote description has not been set, also when Connect to
\* Desktop is pressed again and replaces the current peer connection.
C8_MobileNoEarlyCandidate ==
    role = "mobile" => \A i \in DOMAIN applied : applied[i].rd

\* C9: every candidate received while the remote description was not set is
\* buffered, none is lost, and the buffered candidates are applied to the
\* connection with its remote description set, exactly once, in the order in
\* which they arrived.
C9_BufferedAppliedOnceInOrder ==
    /\ \A c \in 1..ncand :
          c \in AppliedCands \cup Range(pending) \cup LoopCands
    /\ \A i, j \in DOMAIN applied :
          /\ i # j => applied[i].c # applied[j].c
          /\ (i < j /\ applied[i].c \in queued /\ applied[j].c \in queued) =>
                applied[i].c < applied[j].c
    /\ \A i \in DOMAIN applied : applied[i].c \in queued => applied[i].rd

\* C10: the buffered candidates are flushed the moment the remote
\* description is set, so the desktop applies all received candidates in
\* overall arrival order.
C10_AppliedInArrivalOrder ==
    role = "desktop" =>
        \A i, j \in DOMAIN applied : i < j => applied[i].c < applied[j].c

\* C14: after stopStreaming returns, every local media track is stopped and
\* every RTCPeerConnection the mobile client created is closed, also when a
\* createOffer, setLocalDescription or setRemoteDescription is outstanding
\* and also when Connect to Desktop was pressed more than once before.
C14_StopClosesEveryConnection ==
    [][(role = "mobile" /\ isStreaming /\ ~isStreaming') =>
          /\ ~localStream'
          /\ \A p \in PcIds : pcs'[p].st # "open"]_vars

\* C15: an answer or ice-candidate that arrives at the mobile client after it
\* was stopped has no effect: no operation is started on a connection, the
\* connected flag keeps its value, and nothing is stored for a connection
\* created by a later start.
C15_MessageAfterStopIgnored ==
    [][(/\ role = "mobile"
        /\ ~isStreaming
        /\ (ncand' = ncand + 1 \/ ndesc' = ndesc + 1)) =>
          /\ applied' = applied
          /\ hs' = hs /\ chain' = chain /\ pcs' = pcs
          /\ isConnected' = isConnected
          /\ pending' = pending]_vars

\* A negotiation of the mobile is in flight on connection p: the connection
\* was created by connectToDesktop, is not closed and has no answer applied.
InFlight(p) == pcs[p].st = "open" /\ ~pcs[p].rd

\* C16: at most one negotiation is in flight per client: the mobile client
\* does not start a create-offer / set-local-description / send-offer
\* sequence while an earlier offer of it is neither answered nor closed.
C16_OneNegotiationInFlight ==
    [][(role = "mobile" /\ pcRef' # 0 /\ pcRef' # pcRef) =>
          \A p \in PcIds : ~InFlight(p)]_vars

\* C17: manual retry: in every state in which the desktop viewer is not
\* connected the Join Room action is enabled (and emits join-room again), in
\* particular after it joined and no offer ever arrived.
C17_JoinRetryEnabled ==
    (role = "desktop" /\ ~isConnected) => ENABLED DJoinRoom

\* C18: a rejected session description is non-fatal: in the step in which a
\* handler's setRemoteDescription is rejected the client does not become
\* connected, emits nothing to the coordinator, starts no negotiation step of
\* its own, keeps its connection and its signaling socket, and the rejected
\* handler no longer occupies the connection's operations chain, so later
\* messages are handled.
C18_RejectedDescriptionNonFatal ==
    [][\A k \in DOMAIN hs :
          (hs[k].kind # "rejected" /\ hs'[k].kind = "rejected") =>
              /\ isConnected' = isConnected
              /\ sent' = sent
              /\ Len(hs') = Len(hs)
              /\ pcRef' = pcRef /\ pcs' = pcs
              /\ sockUp' = sockUp /\ joinedSock' = joinedSock
              /\ pending' = pending /\ applied' = applied
              /\ \A p \in PcIds : k \notin Range(chain'[p])]_vars

\* C18 witness: the desktop, which never sends an offer, had a session
\* description rejected, stayed not connected, and then applied an offer
\* that arrived later.
C18_Witness ==
    /\ role = "desktop"
    /\ ~isConnected
    /\ \E k, j \in DOMAIN hs :
          /\ k < j
          /\ hs[k].kind = "rejected"
          /\ hs[j].kind = "offer" /\ hs[j].at \in {"createAnswer", "sld", "flush"}

\* C19: a client that reports connected stops reporting it once the
\* transport of its peer connection leaves the connected state or the user
\* stops it: the flag does not stay true for a connection that is no longer
\* connected.
C19_ConnectedFlagFollowsTransport ==
    [][(/\ role \in {"desktop", "mobile"}
        /\ isConnected
        /\ pcRef # 0 /\ pcs[pcRef].conn
        /\ ~pcs'[pcRef].conn) => ~isConnected']_vars

\* C20: the coordinator is total: no join-room, offer, answer, ice-candidate
\* or disconnect event, whatever its room argument or payload (a missing
\* message body included), raises an error.
C20_CoordinatorTotal == lastEv.type # "TypeError"

\* C21: the coordinator enforces no capacity limit.  A participant joining
\* a room that already has two (or more) members is added to the member set
\* like any other, and a message relayed by a member of a room of three or
\* more is delivered to all the other members of that room.
C21_NoCapacityLimit ==
    [][/\ (/\ lastEv'.type = "join-room"
           /\ Cardinality(Members(rooms, lastEv'.room)) >= 2) =>
              Members(rooms', lastEv'.room) =
                  Members(rooms, lastEv'.room) \cup {lastEv'.sock}
       /\ (/\ IsRelay(lastEv')
           /\ lastEv'.sock \in Members(rooms', lastEv'.room)
           /\ Cardinality(Members(rooms', lastEv'.room)) >= 3) =>
              \A q \in Members(rooms', lastEv'.room) \ {lastEv'.sock} :
                  lastEmit'[q] = <<Event(lastEv'.type, lastEv'.payload)>>]_vars

\* C21 witness: a member of a room of three has relayed a message and both
\* other members received it.
C21_Witness ==
    /\ IsRelay(lastEv)
    /\ lastEv.sock \in Members(rooms, lastEv.room)
    /\ Cardinality(Members(rooms, lastEv.room)) = 3
    /\ Cardinality({q \in SocketIds : lastEmit[q] # <<>>}) = 2

\* C22: a join by a participant that is already a member of the room is
\* idempotent on membership: the member set and the member count of that
\* room, and of every other room, are the same as before the repeated join.
C22_RepeatedJoinIdempotent ==
    [][(/\ lastEv'.type = "join-room"
        /\ lastEv'.sock \in Members(rooms, lastEv'.room)) =>
           /\ rooms' = rooms
           /\ roomInfo' = roomInfo
           /\ \A r \in RoomIds : Members(rooms', r) = Members(rooms, r)]_vars

\* C22 witness: a member of a room that has another member has joined that
\* room again while a second room exists.
C22_Witness ==
    /\ lastEv.type = "join-room"
    /\ reJoin
    /\ Cardinality(Members(rooms, lastEv.room)) >= 2
    /\ \E r \in DOMAIN rooms : r # lastEv.room

\* C23: the diagnostic reads are side-effect-free snapshots.  GET /rooms
\* returns for each existing room exactly its current member count, GET
\* /health returns a room count equal to the number of keys of /rooms, and
\* neither request changes the room map or causes a message to a participant.
C23_DiagnosticReadsArePure ==
    [][/\ lastEv'.type = "GET /rooms" =>
              /\ DOMAIN lastRes' = DOMAIN rooms
              /\ \A r \in DOMAIN rooms : lastRes'[r] = Cardinality(rooms[r])
       /\ lastEv'.type = "GET /health" =>
              /\ lastRes'.rooms = Cardinality(DOMAIN rooms)
              /\ lastRes'.rooms = Cardinality(DOMAIN roomInfo)
       /\ lastEv'.type \in {"GET /rooms", "GET /health"} =>
              /\ rooms' = rooms
              /\ sioRooms' = sioRooms
              /\ sockState' = sockState
              /\ \A q \in SocketIds : lastEmit'[q] = <<>>]_vars

\* C23 witness: GET /rooms has answered with two rooms of different sizes.
C23_Witness ==
    /\ lastEv.type = "GET /rooms"
    /\ \E r1, r2 \in DOMAIN lastRes : lastRes[r1] = 2 /\ lastRes[r2] = 1

\* The number of events of a kind in a sequence of emitted events.
CountKind(evs, kind) == Cardinality({i \in DOMAIN evs : evs[i][1] = kind})

C25_CameraFailureStaysLocal ==
    [][(~startFailed /\ startFailed') =>
          /\ sent' = sent
          /\ pcs' = pcs /\ pcRef' = pcRef
          /\ hs' = hs /\ chain' = chain
          /\ ~isStreaming' /\ ~localStream'
          /\ rooms' = rooms /\ sioRooms' = sioRooms
          /\ lastEmit' = lastEmit
          /\ dPc' = dPc /\ dHs' = dHs /\ offersOut' = offersOut
          /\ candsOut' = candsOut]_vars

\* C25 witness: the camera failed to start while the desktop viewer was
\* waiting in the room; the mobile has emitted nothing and is not a member.
C25_Witness ==
    /\ role = "mobile"
    /\ startFailed
    /\ ~isStreaming
    /\ sent = <<>>
    /\ Members(rooms, ClientRoom) = {DesktopSock}

\* C26: the clients reconnect automatically.  After the signaling
\* connection of a participant that joined its room drops and is
\* re-established, the participant is again a member of the room without
\* any user action.
C26_RejoinAfterReconnect ==
    [][(/\ ~sockUp /\ sockUp'
        /\ <<"join-room", ClientRoom>> \in Range(sent)) => joinedSock']_vars

\* The desktop viewer with a remote stream, detection not started.
DetectSpec == DesktopInit /\ [][DetectNext]_vars

\* C27: frame dropping with backpressure.  At every moment at most one frame
\* is outstanding at the detection worker; an interval tick that fires while
\* a frame is outstanding sends nothing to the worker and counts one dropped
\* frame.
C27_OneFrameOutstanding ==
    [][/\ outstanding' <= 1
       /\ (nticks' = nticks + 1 /\ outstanding >= 1) =>
              /\ outstanding' = outstanding
              /\ droppedFrames' = droppedFrames + 1]_vars

\* C27 witness: a second frame is outstanding after the first was answered,
\* and two ticks that fired while a frame was outstanding were dropped.
C27_Witness ==
    /\ role = "desktop"
    /\ outstanding = 1
    /\ processIntervalRef
    /\ droppedFrames = 2
    /\ nticks = 4

\* C28: the desktop emits an answer only after it has applied the received
\* offer as remote description and set the created answer as local
\* description on the same connection; it emits one answer for each offer
\* that was applied successfully and none for an offer whose application
\* failed.
C28_OneAnswerPerAppliedOffer ==
    [][role = "desktop" =>
          /\ sent' # sent =>
                 \/ sent' = Append(sent, <<"join-room", ClientRoom>>)
                 \/ /\ sent' = Append(sent, <<"answer", ClientRoom>>)
                    /\ \E k \in DOMAIN hs :
                          /\ hs[k].kind = "offer" /\ hs[k].at = "sld"
                          /\ hs'[k].at # "sld"
                          /\ pcs'[hs[k].pc].rd /\ pcs'[hs[k].pc].ld
          /\ \A k \in DOMAIN hs :
                 (/\ hs[k].kind = "offer"
                  /\ hs[k].at \in {"createAnswer", "sld"}
                  /\ hs'[k].at \notin {"createAnswer", "sld"}) =>
                     sent' = Append(sent, <<"answer", ClientRoom>>)
          /\ \A k \in DOMAIN hs :
                 (hs[k].kind = "offer" /\ hs'[k].kind = "rejected") =>
                     sent' = sent]_vars

\* C29: whenever the coordinator handles an offer of the mobile client for
\* room R, the sending connection identity is a member of R: the mobile
\* emits join-room for R on a connection before it emits any offer for R on
\* that connection, also after a signaling reconnect.
C29_OfferOnlyAfterJoin ==
    [][(/\ role = "mobile"
        /\ Len(sent') = Len(sent) + 1
        /\ sent'[Len(sent')][1] = "offer") => joinedSock']_vars

\* A WebRTCManager right after its construction.
ManagerInit == CoordInit /\ role = "manager" /\ ClientIdle /\ SessIdle

ManagerSpec == ManagerInit /\ [][ManagerNext]_vars

\* C30: WebRTCManager.handleIceCandidate never applies a candidate to a peer
\* connection whose remote description has not been set by createAnswer or
\* handleAnswer.
C30_ManagerNoEarlyCandidate ==
    role = "manager" => \A i \in DOMAIN applied : applied[i].rd

(***************************************************************************)
(* WebRTCManager and the coordinator: the candidates the manager's peer    *)
(* connections discover.  The manager's socket is connection MobileSock.   *)
(***************************************************************************)
\* The value of a property the message body does not have.
Undefined == "undefined"

\* socket.to(roomId).emit(ev, arg) for the roomId destructured from a message
\* body: a body without a roomId property gives undefined, which names no
\* socket.io room.
ToEmitBody(sio, s, roomId, ev, arg) ==
    IF roomId \in DOMAIN sio THEN ToEmit(sio, s, roomId, ev, arg) ELSE NoEmit

\* WebRTCManager peerConnection.onicecandidate with a candidate: the
\* candidate itself is the message body (it has no roomId property)
WLocalCandidate(p) ==
    /\ role = "manager"
    /\ pcs[p].st = "open" /\ pcs[p].ld
    /\ nlocal[MobileSock] < MaxLocalCands
    /\ nlocal' = [nlocal EXCEPT ![MobileSock] = @ + 1]
    /\ sent' = Append(sent, <<"ice-candidate", Undefined>>)
    /\ UNCHANGED <<role, pcs, chain, hs, pending, pcRef, isJoining, isConnected,
                   isStreaming, localStream, sockUp, joinedSock, ncand, ndesc,
                   nenv, applied, queued>>
    /\ UNCHANGED coordVars
    /\ UNCHANGED detVars
    /\ UNCHANGED startFailed
    /\ UNCHANGED <<dPc, dChain, dHs, dIsJoining, dIsConnected, dSent, dRead,
                   mRead, offersOut, offersIn, answersOut, candsOut>>

\* socket.on('ice-candidate') for the next event of the manager's socket
WCoordIceCandidate ==
    /\ role = "manager"
    /\ sockState[MobileSock] = "open"
    /\ mRead < Len(sent)
    /\ mRead' = mRead + 1
    /\ LET e == sent[mRead + 1]
       IN /\ lastEmit' = ToEmitBody(sioRooms, MobileSock, e[2], e[1], "O")
          /\ lastEv' = [type |-> e[1], sock |-> MobileSock, room |-> e[2],
                        payload |-> "O"]
    /\ lateJoin' = FALSE
    /\ reJoin' = FALSE
    /\ lastRes' = NoResponse
    /\ UNCHANGED <<sockState, rooms, sioRooms, live>>
    /\ UNCHANGED clientVars
    /\ UNCHANGED iceVars
    /\ UNCHANGED detVars
    /\ UNCHANGED <<dPc, dChain, dHs, dIsJoining, dIsConnected, dSent, dRead,
                   offersOut, offersIn, answersOut>>

ManagerRelayNext ==
    \/ \E s \in {MobileSock, DesktopSock} : Connection(s)
    \/ \E s \in {MobileSock, DesktopSock}, r \in RoomIds : JoinRoom(s, r)
    \/ WInitializePeerConnection
    \/ WCall("createOffer", TRUE)
    \/ \E k \in 1..MaxOffers : WSettle(k)
    \/ \E p \in PcIds : WLocalCandidate(p)
    \/ WCoordIceCandidate

ManagerRelaySpec == ManagerInit /\ [][ManagerRelayNext]_vars

\* C31: when the coordinator has handled a candidate discovered by the
\* WebRTCManager, every other member of every room the manager's socket
\* joined has been sent an ice-candidate event.
C31_ManagerCandidateForwarded ==
    (role = "manager" /\ lastEv.type = "ice-candidate")
        => \A r \in DOMAIN rooms :
              lastEv.sock \in rooms[r]
                  => \A q \in rooms[r] \ {lastEv.sock} :
                        \E i \in DOMAIN lastEmit[q] :
                            lastEmit[q][i].ev = "ice-candidate"

\* C32: metrics reset for a new session.  The frame totals of both collectors
\* (globalMetrics.frameCount and globalMetricsExporter.totalFrames) count
\* only the detection results handled since the latest startProcessing.
C32_MetricsCoverLatestSession ==
    role = "desktop" =>
        /\ frameCount = sessionFrames
        /\ totalFrames = sessionFrames

\* C33: relaying never changes membership.  A step in which the coordinator
\* handles an offer, answer or ice-candidate event leaves the rooms map and
\* socket.io's room membership as they were, whoever sent the event and
\* whatever room it names.
C33_RelayKeepsMembership ==
    [][lastEv'.type \in RelayKinds =>
          /\ rooms' = rooms
          /\ sioRooms' = sioRooms
          /\ sockState' = sockState]_vars

\* C33 witness: an offer was relayed for a room that has members by a
\* participant that is not one of them, while another room exists too.
C33_Witness ==
    /\ role = "none"
    /\ lastEv.type = "offer"
    /\ Members(rooms, lastEv.room) # {}
    /\ lastEv.sock \notin Members(rooms, lastEv.room)
    /\ Cardinality(DOMAIN rooms) = 2

\* The member sets of the rooms in rs are the same before and after the step,
\* and none of them is created or deleted.
RoomsKept(rs) ==
    \A r \in rs :
        /\ Members(rooms', r) = Members(rooms, r)
        /\ (r \in DOMAIN rooms') = (r \in DOMAIN rooms)

\* C34 (as stated): a join of p to room R changes only R's member set and a
\* disconnect of p changes only the rooms that contained p; the member set
\* of every other room is unchanged and no participant of such a room
\* receives any event.
C34_OtherRoomsUntouchedAndSilent ==
    [][/\ lastEv'.type = "join-room" =>
             /\ RoomsKept(RoomIds \ {lastEv'.room})
             /\ \A r \in RoomIds \ {lastEv'.room} :
                   \A q \in Members(rooms, r) : lastEmit'[q] = <<>>
       /\ lastEv'.type = "disconnect" =>
             /\ RoomsKept({r \in RoomIds : lastEv'.sock \notin Members(rooms, r)})
             /\ \A r \in RoomIds :
                   lastEv'.sock \notin Members(rooms, r) =>
                       \A q \in Members(rooms, r) : lastEmit'[q] = <<>>]_vars

\* C34 (amended): a join of p to room R changes only R's member set and a
\* disconnect of p changes only the rooms that contained p; the member set
\* of every other room is unchanged, and the only participants that receive
\* an event are the other members of R, respectively the other members of
\* the rooms that contained p.
C34_OtherRoomsUntouched ==
    [][/\ lastEv'.type = "join-room" =>
             /\ RoomsKept(RoomIds \ {lastEv'.room})
             /\ \A q \in SocketIds :
                   lastEmit'[q] # <<>> =>
                       q \in Members(rooms', lastEv'.room) \ {lastEv'.sock}
       /\ lastEv'.type = "disconnect" =>
             /\ RoomsKept({r \in RoomIds : lastEv'.sock \notin Members(rooms, r)})
             /\ \A q \in SocketIds :
                   lastEmit'[q] # <<>> =>
                       /\ q # lastEv'.sock
                       /\ \E r \in DOMAIN rooms :
                             {q, lastEv'.sock} \subseteq rooms[r]]_vars

\* C34 witness: a participant joined a room that had a member, who was sent
\* user-joined, while another room has a member that is outside the joined
\* room and was sent nothing.
C34_Witness ==
    /\ role = "none"
    /\ lastEv.type = "join-room"
    /\ \E q \in Members(rooms, lastEv.room) \ {lastEv.sock} : lastEmit[q] # <<>>
    /\ \E r \in DOMAIN rooms \ {lastEv.room} :
          \E q \in rooms[r] \ Members(rooms, lastEv.room) : lastEmit[q] = <<>>

(***************************************************************************)
(* DesktopViewer: the room code and the signaling connection               *)
(*                                                                         *)
(* The socket effect has the dependency [roomId]: every change of the room *)
(* code runs its cleanup (socket.disconnect()) and creates a new socket.   *)
(* The room code is empty when the viewer mounts; the field's onChange     *)
(* sets it to the field's text (clearing the field, pasting a code).       *)
(***************************************************************************)
\* The values of the room code field.
ViewerCodes == {"", ClientRoom}

\* What an action of the viewer's signaling leaves alone.
VIdleRest ==
    /\ UNCHANGED <<dPc, dChain, dHs, dIsJoining, dIsConnected, dSent, dRead,
                   offersOut, offersIn, answersOut>>
    /\ UNCHANGED iceVars
    /\ UNCHANGED <<isProcessing, processIntervalRef, processingRef, outstanding,
                   droppedFrames, nticks>>
    /\ UNCHANGED metVars

\* The viewer's current socket connects: io.on('connection') with a new
\* socket.id
VSocketConnect(s) ==
    /\ role = "desktop"
    /\ vSock = 0
    /\ sockState[s] = "new"
    /\ vSock' = s
    /\ sockState' = [sockState EXCEPT ![s] = "open"]
    /\ lastEv' = [type |-> "connection", sock |-> s, room |-> NoRoom,
                  payload |-> NoPayload]
    /\ lastEmit' = NoEmit
    /\ lateJoin' = FALSE
    /\ reJoin' = FALSE
    /\ lastRes' = NoResponse
    /\ UNCHANGED <<rooms, sioRooms, live>>
    /\ UNCHANGED clientVars
    /\ UNCHANGED <<vRoomId, mRead>>
    /\ VIdleRest

\* DesktopViewer.joinRoom (the Join Room button, disabled when
\* isConnected || isJoining || !roomId.trim())
VJoinRoom ==
    /\ role = "desktop"
    /\ vRoomId # ""
    /\ ~isJoining /\ ~isConnected
    /\ isJoining' = TRUE
    /\ IF pcRef = 0
       THEN pcs' = [pcs EXCEPT ![1] = PcNew] /\ pcRef' = 1
       ELSE UNCHANGED <<pcs, pcRef>>
    /\ sent' = Append(sent, <<"join-room", vRoomId>>)
    /\ joinedSock' = TRUE
    /\ UNCHANGED <<role, chain, hs, pending, isConnected, isStreaming,
                   localStream, sockUp, ncand, ndesc, nenv, applied, queued,
                   startFailed>>
    /\ UNCHANGED coordVars
    /\ UNCHANGED <<vRoomId, vSock, mRead>>
    /\ VIdleRest

\* socket.on('join-room') for the next event of the viewer's socket (an
\* event emitted before the socket connected is sent when it connects)
VCoordJoinRoom ==
    /\ role = "desktop"
    /\ vSock # 0
    /\ mRead < Len(sent)
    /\ mRead' = mRead + 1
    /\ LET roomId == sent[mRead + 1][2]
       IN /\ sioRooms' = [sioRooms EXCEPT ![roomId] = @ \cup {vSock}]
          /\ rooms' = joinRoomHandler(rooms, vSock, roomId)
          /\ lastEmit' = ToEmit(sioRooms', vSock, roomId, "user-joined", vSock)
          /\ lastEv' = [type |-> "join-room", sock |-> vSock, room |-> roomId,
                        payload |-> NoPayload]
          /\ live' = [live EXCEPT ![roomId] = @ \cup {vSock}]
          /\ reJoin' = (vSock \in Members(rooms, roomId))
    /\ lateJoin' = FALSE
    /\ lastRes' = NoResponse
    /\ UNCHANGED sockState
    /\ UNCHANGED clientVars
    /\ UNCHANGED <<vRoomId, vSock>>
    /\ VIdleRest

\* onChange of the room code field with a different text: setRoomId, the
\* socket effect's cleanup (socket.disconnect(): the coordinator's disconnect
\* handler runs for the old connection, what the old socket had buffered is
\* never sent) and the effect itself (a new socket)
VSetRoomId(code) ==
    /\ role = "desktop"
    /\ code # vRoomId
    /\ vRoomId' = code
    /\ vSock' = 0
    /\ mRead' = Len(sent)
    /\ IF vSock # 0
       THEN /\ sockState' = [sockState EXCEPT ![vSock] = "closed"]
            /\ sioRooms' = [r \in RoomIds |-> sioRooms[r] \ {vSock}]
            /\ rooms' = disconnectHandler(rooms, vSock)
            /\ lastEmit' = disconnectEmits(rooms, sioRooms', vSock)
            /\ lastEv' = [type |-> "disconnect", sock |-> vSock, room |-> NoRoom,
                          payload |-> NoPayload]
            /\ live' = [r \in RoomIds |-> live[r] \ {vSock}]
            /\ lateJoin' = FALSE
            /\ reJoin' = FALSE
            /\ lastRes' = NoResponse
       ELSE UNCHANGED coordVars
    /\ UNCHANGED clientVars
    /\ VIdleRest

\* The desktop viewer, its room code field and the coordinator, with other
\* participants connecting and joining.
ViewerRoomNext ==
    \/ \E s \in SocketIds : VSocketConnect(s)
    \/ VJoinRoom
    \/ VCoordJoinRoom
    \/ \E code \in ViewerCodes : VSetRoomId(code)
    \/ \E s \in SocketIds : s # vSock /\ Connection(s)
    \/ \E s \in SocketIds, r \in RoomIds : s # vSock /\ JoinRoom(s, r)

ViewerRoomSpec == DesktopInit /\ [][ViewerRoomNext]_vars

\* C35: whenever the desktop viewer is in its waiting state (isJoining) and
\* the coordinator has handled everything the viewer's connection emitted,
\* the identity of the viewer's current signaling connection is a member of
\* the room named by the viewer's current room code.
C35_WaitingViewerIsMember ==
    (role = "desktop" /\ isJoining /\ mRead = Len(sent))
        => (vSock # 0 /\ vSock \in Members(rooms, vRoomId))

\* Frame processing with a worker that handles every message it was sent and
\* a viewer that handles every message the worker posted.
DetectFairness ==
    /\ WF_vars(\E throws \in BOOLEAN, n \in 0..MaxDetections :
                  WorkerProcessFrame(throws, n))
    /\ WF_vars(WorkerAnswer)

DetectLiveSpec == DetectSpec /\ DetectFairness

\* C36: every process-frame message the worker handles is answered by
\* exactly one detection-result or error message (also while the model is
\* not initialised, and when the inference throws), and the viewer's
\* in-flight flag processingRef, set when a frame was sent, is eventually
\* cleared again.
C36_EveryFrameAnswered ==
    /\ [][atWorker' = atWorker - 1 =>
             /\ Len(replies') = Len(replies) + 1
             /\ replies'[Len(replies')].type \in {"detection-result", "error"}]_vars
    /\ (processingRef ~> ~processingRef)

\* C36 witness: a frame was sent while the worker's model was not ready; the
\* in-flight flag is set and the worker's error message for the frame is on
\* its way to the viewer.
C36_Witness ==
    /\ role = "desktop"
    /\ processingRef
    /\ wState # "ready"
    /\ atWorker = 0
    /\ replies = <<[type |-> "error", n |-> 0]>>

\* C37: while the performance panel is shown (isProcessing or an interval is
\* set) and no frame is in flight (the answer to the latest frame has been
\* handled), the dropped-frame count the panel shows
\* (metrics.droppedFrames) is the number of interval ticks skipped for an
\* outstanding frame since the latest startProcessing.
C37_PanelShowsDroppedFrames ==
    (role = "desktop" /\ (isProcessing \/ processIntervalRef) /\ ~processingRef)
        => metricsDropped = sessionSkipped

\* C38: from stopProcessing until the next startProcessing (the interval is
\* cleared: processIntervalRef.current is null) no frame is sent to the
\* worker and the detection list shown is empty, also when the result of a
\* frame that was outstanding at the stop arrives in between.
C38_StoppedShowsNothing ==
    [][~processIntervalRef' =>
          /\ ~detections'
          /\ ~processIntervalRef => atWorker' <= atWorker]_vars

====
